---- MODULE Spec2Model ----
(***************************************************************************)
(* Vote accumulators of crates/types/src/vote.rs: DAVoteAccumulator,       *)
(* QuorumVoteAccumulator and ViewSyncVoteAccumulator.  An accumulator is   *)
(* a value; append consumes it and returns Either::Left(evolved            *)
(* accumulator) or Either::Right(AssembledSignature), or panics.           *)
(***************************************************************************)
EXTENDS Integers, Sequences, FiniteSets, Bags, TLC

(***************************************************************************)
(* Bounds of the model.                                                    *)
(***************************************************************************)
\* number of distinct payload commitments votes can name
NumCommitments == 2
\* largest set of votes whose delivery orders are compared
MaxVotes == 3
\* handles of one WNetwork (the original and its clones) that call generate_task
NumCallers == 3
\* message_node / broadcast_message calls made on the two nodes together
MaxSends == 2
\* the clock stops at MaxTime
MaxTime == 4

Commitments == 1 .. NumCommitments

(***************************************************************************)
(* Committee snapshots an accumulator is constructed with: the vote_count  *)
(* of each committee position (position i is stake[i+1]) and the two       *)
(* thresholds.  The signers bitvec has one bit per position.               *)
(***************************************************************************)
Committee(stake, success, failure) ==
    [stake |-> stake, success_threshold |-> success, failure_threshold |-> failure]

Unit4 == Committee(<<1, 1, 1, 1>>, 3, 2)
Mixed4 == Committee(<<1, 1, 2, 3>>, 3, 2)
Unit3 == Committee(<<1, 1, 1>>, 3, 2)
Pair3 == Committee(<<1, 1, 2>>, 3, 2)
Mixed3 == Committee(<<1, 2, 3>>, 3, 2)

Nodes(cfg) == 0 .. (Len(cfg.stake) - 1)
StakeOf(cfg, i) == cfg.stake[i + 1]

(***************************************************************************)
(* Data model.                                                             *)
(***************************************************************************)
DATags == {"DA"}
\* mutant of QuorumTags: the let-else pattern also lets DA votes through
QuorumTagsWithDA == {"Yes", "No", "DA"}
QuorumTags == {"Yes", "No"}
ViewSyncTags == {"ViewSyncPreCommit", "ViewSyncCommit", "ViewSyncFinalize"}
VoteDataTags == DATags \cup QuorumTags \cup ViewSyncTags \cup {"Timeout"}

VoteData(tag, c) == [tag |-> tag, commitment |-> c]

\* SignatureKey::to_bytes / from_bytes: EncodedPublicKey wraps the key bytes
ToBytes(k) == <<"pk", k>>
FromBytes(b) == b[2]

\* a signature share of key k over data d, in its pure (aggregation) form
Sign(k, d) == <<k, d.tag, d.commitment>>
\* EncodedSignature is the bincode serialisation of the pure form
Serialize(sig) == <<"sig", sig>>
Deserialize(enc) == enc[2]

\* a vote of voter k: signature = (EncodedPublicKey, EncodedSignature)
MkVote(k, tag, c, count) ==
    [ signature  |-> <<ToBytes(k), Serialize(Sign(k, VoteData(tag, c)))>>,
      vote_token |-> [vote_count |-> count],
      vote_data  |-> VoteData(tag, c) ]

\* QuorumVote::Timeout(TimeoutVote): the third variant of a quorum vote
MkTimeoutVote(k, view, count) ==
    [ variant    |-> "QuorumVote::Timeout",
      signature  |-> <<ToBytes(k), Serialize(Sign(k, VoteData("Timeout", view)))>>,
      vote_token |-> [vote_count |-> count],
      vote_data  |-> VoteData("Timeout", view) ]

\* QuorumVote::get_data: QuorumVote::Timeout(_) => unimplemented!()
GetDataUnimplemented(vote) == "variant" \in DOMAIN vote

get_key(vote) == FromBytes(vote.signature[1])
get_signature(vote) == vote.signature[2]
get_data(vote) == vote.vote_data
get_vote_token(vote) == vote.vote_token
vote_count(token) == token.vote_count

(***************************************************************************)
(* VoteMap: commitment -> (accumulated stake, BTreeMap key -> vote entry). *)
(***************************************************************************)
EmptyVoteMap == [c \in {} |-> 0]
EmptyTally == [stake |-> 0, voters |-> [k \in {} |-> 0]]

\* mutant of OrInsert: HashMap::insert, which replaces an existing tally
OrInsertReplacing(map, c) == (c :> EmptyTally) @@ map

\* HashMap::entry(c).or_insert_with(|| (0, BTreeMap::new()))
OrInsert(map, c) == IF c \in DOMAIN map THEN map ELSE (c :> EmptyTally) @@ map

\* HashMap::remove(&c)
Remove(map, c) == [k \in DOMAIN map \ {c} |-> map[k]]

\* mutant of remove: the entry of another commitment is looked up
removeOtherKey(map, c) ==
    LET others == DOMAIN map \ {c}
    IN  IF others = {} THEN [value |-> << >>, map |-> map]
        ELSE LET d == CHOOSE k \in others : TRUE
             IN  [value |-> <<map[d]>>, map |-> [k \in DOMAIN map \ {d} |-> map[k]]]

\* HashMap::remove(&c) with its result: Some(tally), written <<tally>>, or
\* None, written << >>
remove(map, c) ==
    [value |-> IF c \in DOMAIN map THEN <<map[c]>> ELSE << >>,
     map   |-> [k \in DOMAIN map \ {c} |-> map[k]]]

\* Option::unwrap panics on None
unwrap_panics(option) == option = << >>

\* mutant of contains_key: the encoded-key lookup never finds the key
ContainsKeyNever(map, c, key) == FALSE

contains_key(map, c, key) == key \in DOMAIN map[c].voters

\* u64 scaled to the model: a stake is a word of StakeBits bits, and the largest
\* committee (Mixed4) has a total stake of exactly U64Max
StakeBits == 3
U64Max == 2^StakeBits - 1

\* mutant of AddU64: the sum is kept in a word one bit shorter
AddU64Narrow(a, b) == (a + b) % 2^(StakeBits - 1)

\* += on u64: the sum modulo the word size
AddU64(a, b) == (a + b) % (U64Max + 1)

\* *stake_casted += vote_count; vote_map.insert(key, (sig, data, token))
\* mutant of Credit: the stake is added but the entry is not inserted
CreditWithoutInsert(map, c, key, vote) ==
    [map EXCEPT ![c] = [@ EXCEPT !.stake = @ + vote_count(get_vote_token(vote))]]

Credit(map, c, key, vote) ==
    [map EXCEPT ![c] =
        [ stake  |-> AddU64(@.stake, vote_count(get_vote_token(vote))),
          voters |-> (key :> <<get_signature(vote), get_data(vote), get_vote_token(vote)>>)
                        @@ @.voters ]]

(***************************************************************************)
(* signers bitvec and sig_lists.                                           *)
(***************************************************************************)
NoSigners(cfg) == [i \in Nodes(cfg) |-> FALSE]

\* mutant of SignerIsSet: the bit after the voter's is consulted
SignerIsSetNext(signers, vote_node_id) ==
    (vote_node_id + 1) \in DOMAIN signers /\ signers[vote_node_id + 1]

\* mutant of SignerIsSet: the signers bit is not consulted
SignerNeverSet(signers, vote_node_id) == FALSE

\* self.signers.get(vote_node_id).as_deref() == Some(&true)
SignerIsSet(signers, vote_node_id) ==
    vote_node_id \in DOMAIN signers /\ signers[vote_node_id]

\* mutant of SetPanics: an index outside the bitvec is let through
SetNeverPanics(signers, vote_node_id) == FALSE

\* BitVec::set panics when the index is outside the bitvec
SetPanics(signers, vote_node_id) == vote_node_id \notin DOMAIN signers

\* mutant of CommitShare: the bit is set and the share is not pushed
CommitShareBitOnly(self, vote_node_id, original_signature) ==
    [self EXCEPT !.signers = [@ EXCEPT ![vote_node_id] = TRUE]]

\* mutant of CommitShare: the share replaces the list instead of joining it
CommitShareKeepLast(self, vote_node_id, original_signature) ==
    [self EXCEPT !.signers = [@ EXCEPT ![vote_node_id] = TRUE],
                 !.sig_lists = <<original_signature>>]

\* mutant of CommitShare: the share is inserted at the rank of its signer bit
CommitShareAtBitRank(self, vote_node_id, original_signature) ==
    LET Lower(share) == share[1] < vote_node_id
        Higher(share) == ~Lower(share)
    IN  [self EXCEPT !.signers = [@ EXCEPT ![vote_node_id] = TRUE],
                     !.sig_lists = SelectSeq(@, Lower) \o <<original_signature>>
                                        \o SelectSeq(@, Higher)]

\* self.signers.set(vote_node_id, true); self.sig_lists.push(original_signature)
CommitShare(self, vote_node_id, original_signature) ==
    [self EXCEPT !.signers = [@ EXCEPT ![vote_node_id] = TRUE],
                 !.sig_lists = Append(@, original_signature)]

(***************************************************************************)
(* AssembledSignature: the aggregate is opaque, so a certificate is the    *)
(* variant together with the arguments given to get_public_parameter and   *)
(* assemble.                                                               *)
(***************************************************************************)
NoCert == [kind |-> "None", entries |-> << >>, threshold |-> 0,
           signers |-> << >>, sig_lists |-> << >>]

Assemble(variant, entries, threshold, self) ==
    [kind |-> variant, entries |-> entries, threshold |-> threshold,
     signers |-> self.signers, sig_lists |-> self.sig_lists]

\* outcomes of one append; exit names the return statement (or panic) taken:
\* "filter" (wrong VoteData tag), "dup_key" (encoded key already recorded),
\* "dup_signer" (signers bit already set), "credited" (final Either::Left),
\* "fired" (Either::Right), "panic"
Left(self, exit) == [tag |-> "Left", exit |-> exit, acc |-> self, cert |-> NoCert]
Right(self, certificate) ==
    [tag |-> "Right", exit |-> "fired", acc |-> self, cert |-> certificate]
Panic(self) == [tag |-> "Panic", exit |-> "panic", acc |-> self, cert |-> NoCert]
\* the panic of remove(..).unwrap() on a missing tally
PanicUnwrap(self) == [tag |-> "Panic", exit |-> "unwrap", acc |-> self, cert |-> NoCert]

(***************************************************************************)
(* DAVoteAccumulator                                                       *)
(***************************************************************************)
NewDAVoteAccumulator(cfg) ==
    [ da_vote_outcomes  |-> EmptyVoteMap,
      success_threshold |-> cfg.success_threshold,
      sig_lists         |-> << >>,
      signers           |-> NoSigners(cfg) ]

\* sum of the numbers n of a set of pairs <<id, n>>
RECURSIVE SumPairs(_)
SumPairs(S) ==
    IF S = {} THEN 0
    ELSE LET x == CHOOSE y \in S : TRUE IN x[2] + SumPairs(S \ {x})

\* mutant of DAThresholdReached: strict comparison
DAThresholdStrict(self, c) ==
    self.da_vote_outcomes[c].stake > self.success_threshold

\* mutant of DAThresholdReached: compares the stake of all commitments together
DAThresholdAllCommitments(self, c) ==
    SumPairs({ <<d, self.da_vote_outcomes[d].stake>> : d \in DOMAIN self.da_vote_outcomes })
        >= self.success_threshold

DAThresholdReached(self, c) ==
    self.da_vote_outcomes[c].stake >= self.success_threshold

DAVoteAccumulatorAppend(self, vote, vote_node_id, stake_table_entries) ==
    IF GetDataUnimplemented(vote) THEN Panic(self)
    ELSE IF get_data(vote).tag \notin DATags THEN Left(self, "filter")
    ELSE
    LET vote_commitment == get_data(vote).commitment
        encoded_key == ToBytes(get_key(vote))
        original_signature == Deserialize(get_signature(vote))
        s1 == [self EXCEPT !.da_vote_outcomes = OrInsert(@, vote_commitment)]
    IN  IF contains_key(s1.da_vote_outcomes, vote_commitment, encoded_key)
        THEN Left(s1, "dup_key")
        ELSE IF SignerIsSet(s1.signers, vote_node_id) THEN Left(s1, "dup_signer")
        ELSE IF SetPanics(s1.signers, vote_node_id) THEN Panic(s1)
        ELSE
        LET s2 == CommitShare(s1, vote_node_id, original_signature)
            s3 == [s2 EXCEPT !.da_vote_outcomes =
                        Credit(@, vote_commitment, encoded_key, vote)]
        IN  IF DAThresholdReached(s3, vote_commitment)
            THEN Right([s3 EXCEPT !.da_vote_outcomes = Remove(@, vote_commitment)],
                       Assemble("DA", stake_table_entries, s3.success_threshold, s3))
            ELSE Left(s3, "credited")

(***************************************************************************)
(* QuorumVoteAccumulator                                                   *)
(***************************************************************************)
NewQuorumVoteAccumulator(cfg) ==
    [ total_vote_outcomes |-> EmptyVoteMap,
      yes_vote_outcomes   |-> EmptyVoteMap,
      no_vote_outcomes    |-> EmptyVoteMap,
      success_threshold   |-> cfg.success_threshold,
      failure_threshold   |-> cfg.failure_threshold,
      sig_lists           |-> << >>,
      signers             |-> NoSigners(cfg) ]

\* the three or_insert_with calls
QuorumEntries(self, c) ==
    [self EXCEPT !.total_vote_outcomes = OrInsert(@, c),
                 !.yes_vote_outcomes = OrInsert(@, c),
                 !.no_vote_outcomes = OrInsert(@, c)]

\* mutant of QuorumCredit: a No vote is credited to the total tally only
QuorumCreditYesOnly(self, c, key, vote) ==
    LET t == [self EXCEPT !.total_vote_outcomes = Credit(@, c, key, vote)]
    IN  IF get_data(vote).tag = "Yes"
        THEN [t EXCEPT !.yes_vote_outcomes = Credit(@, c, key, vote)]
        ELSE t

\* credit the total tally and the tally of the vote's outcome
QuorumCredit(self, c, key, vote) ==
    LET t == [self EXCEPT !.total_vote_outcomes = Credit(@, c, key, vote)]
    IN  IF get_data(vote).tag = "Yes"
        THEN [t EXCEPT !.yes_vote_outcomes = Credit(@, c, key, vote)]
        ELSE [t EXCEPT !.no_vote_outcomes = Credit(@, c, key, vote)]

\* mutant of QuorumThreshold: the No test comes first
QuorumThresholdNoFirst(self, c) ==
    IF self.total_vote_outcomes[c].stake >= self.success_threshold
    THEN IF self.no_vote_outcomes[c].stake >= self.failure_threshold THEN "No"
         ELSE IF self.yes_vote_outcomes[c].stake >= self.success_threshold THEN "Yes"
         ELSE "None"
    ELSE "None"

\* mutant of QuorumThreshold: no gate on the total stake
QuorumThresholdNoGate(self, c) ==
    IF self.yes_vote_outcomes[c].stake >= self.success_threshold THEN "Yes"
    ELSE IF self.no_vote_outcomes[c].stake >= self.failure_threshold THEN "No"
    ELSE "None"

\* mutant of QuorumThreshold: the gate asks for exactly success_threshold
QuorumThresholdTotalExact(self, c) ==
    IF self.total_vote_outcomes[c].stake = self.success_threshold
    THEN IF self.yes_vote_outcomes[c].stake >= self.success_threshold THEN "Yes"
         ELSE IF self.no_vote_outcomes[c].stake >= self.failure_threshold THEN "No"
         ELSE "None"
    ELSE "None"

\* which certificate, if any, the threshold section emits for commitment c
QuorumThreshold(self, c) ==
    IF self.total_vote_outcomes[c].stake >= self.success_threshold
    THEN IF self.yes_vote_outcomes[c].stake >= self.success_threshold THEN "Yes"
         ELSE IF self.no_vote_outcomes[c].stake >= self.failure_threshold THEN "No"
         ELSE "None"
    ELSE "None"

QuorumVoteAccumulatorAppend(self, vote, vote_node_id, stake_table_entries) ==
    IF GetDataUnimplemented(vote) THEN Panic(self)
    ELSE IF get_data(vote).tag \notin QuorumTags THEN Left(self, "filter")
    ELSE
    LET vote_commitment == get_data(vote).commitment
        encoded_key == ToBytes(get_key(vote))
        original_signature == Deserialize(get_signature(vote))
        s1 == QuorumEntries(self, vote_commitment)
    IN  IF contains_key(s1.total_vote_outcomes, vote_commitment, encoded_key)
        THEN Left(s1, "dup_key")
        ELSE IF SignerIsSet(s1.signers, vote_node_id) THEN Left(s1, "dup_signer")
        ELSE IF SetPanics(s1.signers, vote_node_id) THEN Panic(s1)
        ELSE
        LET s2 == CommitShare(s1, vote_node_id, original_signature)
            s3 == QuorumCredit(s2, vote_commitment, encoded_key, vote)
            fired == QuorumThreshold(s3, vote_commitment)
        IN  IF fired = "Yes"
            THEN Right([s3 EXCEPT !.yes_vote_outcomes = Remove(@, vote_commitment)],
                       Assemble("Yes", stake_table_entries, s3.success_threshold, s3))
            ELSE IF fired = "No"
            THEN Right([s3 EXCEPT !.total_vote_outcomes = Remove(@, vote_commitment)],
                       Assemble("No", stake_table_entries, s3.success_threshold, s3))
            ELSE Left(s3, "credited")

(***************************************************************************)
(* ViewSyncVoteAccumulator                                                 *)
(***************************************************************************)
NewViewSyncVoteAccumulator(cfg) ==
    [ pre_commit_vote_outcomes |-> EmptyVoteMap,
      commit_vote_outcomes     |-> EmptyVoteMap,
      finalize_vote_outcomes   |-> EmptyVoteMap,
      success_threshold        |-> cfg.success_threshold,
      failure_threshold        |-> cfg.failure_threshold,
      sig_lists                |-> << >>,
      signers                  |-> NoSigners(cfg) ]

\* mutant of ViewSyncCredit: a Commit vote is credited to the finalize tally too
ViewSyncCreditCommitTwice(self, c, key, vote) ==
    IF get_data(vote).tag = "ViewSyncPreCommit"
    THEN [self EXCEPT !.pre_commit_vote_outcomes = Credit(@, c, key, vote)]
    ELSE IF get_data(vote).tag = "ViewSyncCommit"
    THEN [self EXCEPT !.commit_vote_outcomes = Credit(@, c, key, vote),
                      !.finalize_vote_outcomes = Credit(@, c, key, vote)]
    ELSE [self EXCEPT !.finalize_vote_outcomes = Credit(@, c, key, vote)]

ViewSyncCredit(self, c, key, vote) ==
    IF get_data(vote).tag = "ViewSyncPreCommit"
    THEN [self EXCEPT !.pre_commit_vote_outcomes = Credit(@, c, key, vote)]
    ELSE IF get_data(vote).tag = "ViewSyncCommit"
    THEN [self EXCEPT !.commit_vote_outcomes = Credit(@, c, key, vote)]
    ELSE [self EXCEPT !.finalize_vote_outcomes = Credit(@, c, key, vote)]

\* mutant of ViewSyncThreshold: PreCommit waits for success_threshold
ViewSyncThresholdPreCommitAtSuccess(self, c) ==
    IF self.pre_commit_vote_outcomes[c].stake >= self.success_threshold
    THEN "ViewSyncPreCommit"
    ELSE IF self.commit_vote_outcomes[c].stake >= self.success_threshold
    THEN "ViewSyncCommit"
    ELSE IF self.finalize_vote_outcomes[c].stake >= self.success_threshold
    THEN "ViewSyncFinalize"
    ELSE "None"

\* mutant of ViewSyncThreshold: PreCommit asks for exactly failure_threshold
ViewSyncThresholdPreCommitExact(self, c) ==
    IF self.pre_commit_vote_outcomes[c].stake = self.failure_threshold
    THEN "ViewSyncPreCommit"
    ELSE IF self.commit_vote_outcomes[c].stake >= self.success_threshold
    THEN "ViewSyncCommit"
    ELSE IF self.finalize_vote_outcomes[c].stake >= self.success_threshold
    THEN "ViewSyncFinalize"
    ELSE "None"

\* the three threshold tests, in the order of the code
ViewSyncThreshold(self, c) ==
    IF self.pre_commit_vote_outcomes[c].stake >= self.failure_threshold
    THEN "ViewSyncPreCommit"
    ELSE IF self.commit_vote_outcomes[c].stake >= self.success_threshold
    THEN "ViewSyncCommit"
    ELSE IF self.finalize_vote_outcomes[c].stake >= self.success_threshold
    THEN "ViewSyncFinalize"
    ELSE "None"

ViewSyncVoteAccumulatorAppend(self, vote, vote_node_id, stake_table_entries) ==
    IF GetDataUnimplemented(vote) THEN Panic(self)
    ELSE IF get_data(vote).tag \notin ViewSyncTags THEN Left(self, "filter")
    ELSE
    LET vote_commitment == get_data(vote).commitment
        encoded_key == ToBytes(get_key(vote))
        original_signature == Deserialize(get_signature(vote))
        p1 == [self EXCEPT !.pre_commit_vote_outcomes = OrInsert(@, vote_commitment)]
        p2 == [p1 EXCEPT !.commit_vote_outcomes = OrInsert(@, vote_commitment)]
        p3 == [p2 EXCEPT !.finalize_vote_outcomes = OrInsert(@, vote_commitment)]
    IN  IF contains_key(p1.pre_commit_vote_outcomes, vote_commitment, encoded_key)
        THEN Left(p1, "dup_key")
        ELSE IF contains_key(p2.commit_vote_outcomes, vote_commitment, encoded_key)
        THEN Left(p2, "dup_key")
        ELSE IF contains_key(p3.finalize_vote_outcomes, vote_commitment, encoded_key)
        THEN Left(p3, "dup_key")
        ELSE IF SignerIsSet(p3.signers, vote_node_id) THEN Left(p3, "dup_signer")
        ELSE IF SetPanics(p3.signers, vote_node_id) THEN Panic(p3)
        ELSE
        LET s2 == CommitShare(p3, vote_node_id, original_signature)
            s3 == ViewSyncCredit(s2, vote_commitment, encoded_key, vote)
            fired == ViewSyncThreshold(s3, vote_commitment)
        IN  IF fired = "ViewSyncPreCommit"
            THEN IF unwrap_panics(remove(s3.pre_commit_vote_outcomes, vote_commitment).value)
                 THEN PanicUnwrap(s3)
                 ELSE Right([s3 EXCEPT !.pre_commit_vote_outcomes = remove(@, vote_commitment).map],
                            Assemble(fired, stake_table_entries, s3.failure_threshold, s3))
            ELSE IF fired = "ViewSyncCommit"
            THEN IF unwrap_panics(remove(s3.commit_vote_outcomes, vote_commitment).value)
                 THEN PanicUnwrap(s3)
                 ELSE Right([s3 EXCEPT !.commit_vote_outcomes = remove(@, vote_commitment).map],
                            Assemble(fired, stake_table_entries, s3.success_threshold, s3))
            ELSE IF fired = "ViewSyncFinalize"
            THEN IF unwrap_panics(remove(s3.finalize_vote_outcomes, vote_commitment).value)
                 THEN PanicUnwrap(s3)
                 ELSE Right([s3 EXCEPT !.finalize_vote_outcomes = remove(@, vote_commitment).map],
                            Assemble(fired, stake_table_entries, s3.success_threshold, s3))
            ELSE Left(s3, "credited")

(***************************************************************************)
(* VoteAccumulator: the unified accumulator, with all seven VoteMaps.  Its *)
(* append takes one tuple                                                  *)
(*   (commitment, (key, (sig, entries, node_id, vote_data, token))).       *)
(***************************************************************************)
NewVoteAccumulator(cfg) ==
    [ total_vote_outcomes              |-> EmptyVoteMap,
      da_vote_outcomes                 |-> EmptyVoteMap,
      yes_vote_outcomes                |-> EmptyVoteMap,
      no_vote_outcomes                 |-> EmptyVoteMap,
      viewsync_precommit_vote_outcomes |-> EmptyVoteMap,
      viewsync_commit_vote_outcomes    |-> EmptyVoteMap,
      viewsync_finalize_vote_outcomes  |-> EmptyVoteMap,
      success_threshold                |-> cfg.success_threshold,
      failure_threshold                |-> cfg.failure_threshold,
      sig_lists                        |-> << >>,
      signers                          |-> NoSigners(cfg) ]

\* the six or_insert_with that follow the duplicate check
VoteAccumulatorEntries(self, c) ==
    [self EXCEPT !.da_vote_outcomes = OrInsert(@, c),
                 !.yes_vote_outcomes = OrInsert(@, c),
                 !.no_vote_outcomes = OrInsert(@, c),
                 !.viewsync_precommit_vote_outcomes = OrInsert(@, c),
                 !.viewsync_commit_vote_outcomes = OrInsert(@, c),
                 !.viewsync_finalize_vote_outcomes = OrInsert(@, c)]

\* the outcome map the match on vote_data credits
VoteAccumulatorMapOf(tag) ==
    IF tag = "DA" THEN "da_vote_outcomes"
    ELSE IF tag = "Yes" THEN "yes_vote_outcomes"
    ELSE IF tag = "No" THEN "no_vote_outcomes"
    ELSE IF tag = "ViewSyncPreCommit" THEN "viewsync_precommit_vote_outcomes"
    ELSE IF tag = "ViewSyncCommit" THEN "viewsync_commit_vote_outcomes"
    ELSE "viewsync_finalize_vote_outcomes"

\* *stake_casted += vote_count; vote_map.insert(key, (sig, vote_data, token))
CreditVal(map, c, key, sig, vote_data, token) ==
    [map EXCEPT ![c] =
        [ stake  |-> AddU64(@.stake, vote_count(token)),
          voters |-> (key :> <<sig, vote_data, token>>) @@ @.voters ]]

\* mutant of VoteAccumulatorThreshold: PreCommit is tested under the gate too
VoteAccumulatorThresholdAllGated(self, c) ==
    IF self.total_vote_outcomes[c].stake >= self.success_threshold
    THEN IF self.yes_vote_outcomes[c].stake >= self.success_threshold THEN "Yes"
         ELSE IF self.no_vote_outcomes[c].stake >= self.failure_threshold THEN "No"
         ELSE IF self.da_vote_outcomes[c].stake >= self.success_threshold THEN "DA"
         ELSE IF self.viewsync_commit_vote_outcomes[c].stake >= self.success_threshold
         THEN "ViewSyncCommit"
         ELSE IF self.viewsync_finalize_vote_outcomes[c].stake >= self.success_threshold
         THEN "ViewSyncFinalize"
         ELSE IF self.viewsync_precommit_vote_outcomes[c].stake >= self.failure_threshold
         THEN "ViewSyncPreCommit"
         ELSE "None"
    ELSE "None"

\* the threshold section: five tests under the gate on the total, then PreCommit
VoteAccumulatorThreshold(self, c) ==
    LET gated ==
            IF self.total_vote_outcomes[c].stake >= self.success_threshold
            THEN IF self.yes_vote_outcomes[c].stake >= self.success_threshold THEN "Yes"
                 ELSE IF self.no_vote_outcomes[c].stake >= self.failure_threshold THEN "No"
                 ELSE IF self.da_vote_outcomes[c].stake >= self.success_threshold THEN "DA"
                 ELSE IF self.viewsync_commit_vote_outcomes[c].stake >= self.success_threshold
                 THEN "ViewSyncCommit"
                 ELSE IF self.viewsync_finalize_vote_outcomes[c].stake
                            >= self.success_threshold
                 THEN "ViewSyncFinalize"
                 ELSE "None"
            ELSE "None"
    IN  IF gated # "None" THEN gated
        ELSE IF self.viewsync_precommit_vote_outcomes[c].stake >= self.failure_threshold
        THEN "ViewSyncPreCommit"
        ELSE "None"

\* mutant of VoteAccumulatorParameter: every certificate is built for success_threshold
VoteAccumulatorParameterSuccess(self, variant) == self.success_threshold

\* the threshold handed to get_public_parameter for the variant emitted
VoteAccumulatorParameter(self, variant) ==
    IF variant = "ViewSyncPreCommit" THEN self.failure_threshold
    ELSE self.success_threshold

\* the map whose entry under the commitment is removed before Right
VoteAccumulatorRemoved(variant) ==
    IF variant = "No" THEN "total_vote_outcomes" ELSE VoteAccumulatorMapOf(variant)

\* the arms that unwrap the removed tally
VoteAccumulatorUnwraps(variant) ==
    variant \in {"ViewSyncPreCommit", "ViewSyncCommit", "ViewSyncFinalize"}

\* mutant of VoteAccumulatorAppend: the Timeout arm is reached before the bit is
\* set, the share pushed and the total credited
VoteAccumulatorAppendTimeoutFirst(self, val) ==
    LET commitment == val[1]
        key == val[2][1]
        sig == val[2][2][1]
        entries == val[2][2][2]
        node_id == val[2][2][3]
        vote_data == val[2][2][4]
        token == val[2][2][5]
        original_signature == Deserialize(sig)
        t1 == [self EXCEPT !.total_vote_outcomes = OrInsert(@, commitment)]
        t2 == VoteAccumulatorEntries(t1, commitment)
    IN  IF contains_key(t1.total_vote_outcomes, commitment, key) THEN Left(t1, "dup_key")
        ELSE IF SignerIsSet(t2.signers, node_id) THEN Left(t2, "dup_signer")
        ELSE IF SetPanics(t2.signers, node_id) THEN Panic(t2)
        ELSE
        IF vote_data.tag = "Timeout" THEN Panic(t2)
        ELSE
        LET t3 == CommitShare(t2, node_id, original_signature)
            t4 == [t3 EXCEPT !.total_vote_outcomes =
                       CreditVal(@, commitment, key, sig, vote_data, token)]
        IN
            LET t5 == [t4 EXCEPT ![VoteAccumulatorMapOf(vote_data.tag)] =
                           CreditVal(@, commitment, key, sig, vote_data, token)]
                fired == VoteAccumulatorThreshold(t5, commitment)
            IN  IF fired = "None" THEN Left(t5, "credited")
                ELSE IF /\ VoteAccumulatorUnwraps(fired)
                           /\ unwrap_panics(remove(t5[VoteAccumulatorRemoved(fired)],
                                                   commitment).value)
                THEN PanicUnwrap(t5)
                ELSE Right([t5 EXCEPT ![VoteAccumulatorRemoved(fired)] =
                                remove(@, commitment).map],
                           Assemble(fired, entries, VoteAccumulatorParameter(t5, fired), t5))

VoteAccumulatorAppend(self, val) ==
    LET commitment == val[1]
        key == val[2][1]
        sig == val[2][2][1]
        entries == val[2][2][2]
        node_id == val[2][2][3]
        vote_data == val[2][2][4]
        token == val[2][2][5]
        original_signature == Deserialize(sig)
        t1 == [self EXCEPT !.total_vote_outcomes = OrInsert(@, commitment)]
        t2 == VoteAccumulatorEntries(t1, commitment)
    IN  IF contains_key(t1.total_vote_outcomes, commitment, key) THEN Left(t1, "dup_key")
        ELSE IF SignerIsSet(t2.signers, node_id) THEN Left(t2, "dup_signer")
        ELSE IF SetPanics(t2.signers, node_id) THEN Panic(t2)
        ELSE
        LET t3 == CommitShare(t2, node_id, original_signature)
            t4 == [t3 EXCEPT !.total_vote_outcomes =
                       CreditVal(@, commitment, key, sig, vote_data, token)]
        IN  IF vote_data.tag = "Timeout" THEN Panic(t4)
            ELSE
            LET t5 == [t4 EXCEPT ![VoteAccumulatorMapOf(vote_data.tag)] =
                           CreditVal(@, commitment, key, sig, vote_data, token)]
                fired == VoteAccumulatorThreshold(t5, commitment)
            IN  IF fired = "None" THEN Left(t5, "credited")
                ELSE IF /\ VoteAccumulatorUnwraps(fired)
                           /\ unwrap_panics(remove(t5[VoteAccumulatorRemoved(fired)],
                                                   commitment).value)
                THEN PanicUnwrap(t5)
                ELSE Right([t5 EXCEPT ![VoteAccumulatorRemoved(fired)] =
                                remove(@, commitment).map],
                           Assemble(fired, entries, VoteAccumulatorParameter(t5, fired), t5))

\* the tuple a driver builds from a vote, its voter's index and the entries
ValOf(vote, node_id, entries) ==
    <<get_data(vote).commitment,
      <<vote.signature[1],
        <<get_signature(vote), entries, node_id, get_data(vote), get_vote_token(vote)>>>>>>

(***************************************************************************)
(* State: one accumulator instance and the outcome of the last append.     *)
(***************************************************************************)
VARIABLES
    kind,     \* "DA", "Quorum" or "ViewSync": the type of the instance
    config,   \* the committee snapshot it was constructed with
    acc,      \* the accumulator (as of the last return or panic)
    status,   \* "live", "fired" (consumed by Right) or "panicked"
    ret,      \* "None", "Left", "Right" or "Panic": outcome of the last append
    exit,     \* the return statement the last append left through
    cert,     \* the certificate returned by the firing append, else NoCert
    pending,  \* delivery of a fixed vote set: the calls not made yet
    delivered \* delivery of a fixed vote set: the calls made, in order

(***************************************************************************)
(* State of src/networking/w_network.rs: two WNetwork nodes, 1 and 2, and  *)
(* the one websocket connection the driver opens from node 1 to node 2.    *)
(* Each node has the fields of WNetworkInner; each end of the connection   *)
(* has the task of spawn_task with its outbound queue.                     *)
(***************************************************************************)
VARIABLES
    tasks_started,  \* WNetworkInner::tasks_started (AtomicBool) of each node
    socket_holder,  \* WNetworkInner::socket_holder: "Some" listener or "None"
    gen,            \* the generate_task call of each caller of each node
    listener,       \* listener_future of each node: "none", "running", "panicked"
    handles,        \* WNetworkInner::handles of each node: the keys present
    counter,        \* WNetworkInner::counter of each node
    connect,        \* the connect_to call of each node
    task,           \* the connection task of each node: "none", "running", "panicked"
    ident,          \* pk_r of spawn_task(None): "none", "received", "stored"
    outbound,       \* Handle::outbound of each node's end: commands queued
    wire,           \* websocket frames written by each node, not yet read
    direct_ch,      \* inputs.direct / outputs.direct of each node
    broadcast_ch,   \* inputs.broadcast / outputs.broadcast of each node
    got_direct,     \* what next_direct has returned on each node, in order
    got_broadcast,  \* what next_broadcast has returned on each node, in order
    sent            \* the message_node / broadcast_message calls that returned

VARIABLES
    shutdown,       \* Handle::shutdown of each node's end of the connection
    issued,         \* the values get_next_message_id has returned on each node
    waiters,        \* the ids registered in Waiters::acked on each node, in order
    pk_s,           \* pk_s of each end's task: TRUE while it is Some
    pk_r,           \* pk_r of each end's spawn_task: "alive" or "dropped"
    reported,       \* the keys sent through pk_s on each end, in order
    ping,           \* the ping_remote call the patrol task of each node spawned
    now,            \* Instant::now(), in units of the clock
    last_message    \* Handle::last_message of each node's end

\* the variables of the keep-alive, handshake and shutdown paths
connvars == <<shutdown, issued, waiters, pk_s, pk_r, reported, ping, now, last_message>>

netvars == <<tasks_started, socket_holder, gen, listener, handles, counter, connect,
             task, ident, outbound, wire, direct_ch, broadcast_ch, got_direct,
             got_broadcast, sent, connvars>>

accvars == <<kind, config, acc, status, ret, exit, cert, pending, delivered>>

vars == <<accvars, netvars>>

Kinds == {"DA", "Quorum", "ViewSync"}

(***************************************************************************)
(* WNetwork: data.                                                         *)
(***************************************************************************)
NetNodes == {1, 2}
Peer(n) == 3 - n

\* payloads of type T, with the length of their bincode encoding
Msgs == {"small", "large"}
PayloadSize(m) == IF m = "small" THEN 8 ELSE 20000

\* enum Command<T>
Broadcast(inner, from, id) == [tag |-> "Broadcast", inner |-> inner, from |-> from, id |-> id]
Direct(inner, from, to, id) ==
    [tag |-> "Direct", inner |-> inner, from |-> from, to |-> to, id |-> id]
Identify(from, id) == [tag |-> "Identify", from |-> from, id |-> id]
Ack(ack_id, id) == [tag |-> "Ack", ack_id |-> ack_id, id |-> id]
Ping(id) == [tag |-> "Ping", id |-> id]

\* bincode::DefaultOptions::new().with_limit(16_384): encoding and decoding
\* fail on a command whose encoding is longer than the limit
BincodeLimit == 16384
SerializedSize(command) ==
    16 + (IF command.tag \in {"Broadcast", "Direct"} THEN PayloadSize(command.inner) ELSE 0)
BincodeSerialize(command) ==
    IF SerializedSize(command) > BincodeLimit
    THEN [ok |-> FALSE, bytes |-> << >>]
    ELSE [ok |-> TRUE, bytes |-> <<"bincode", command>>]
BincodeDeserialize(bytes) ==
    IF bytes = << >> \/ bytes[1] # "bincode" \/ SerializedSize(bytes[2]) > BincodeLimit
    THEN [ok |-> FALSE, command |-> << >>]
    ELSE [ok |-> TRUE, command |-> bytes[2]]

\* mutant of compare_exchange: the new value is not stored
CompareExchangeNoStore(cell, current, new) ==
    [ok |-> cell = current, value |-> cell, cell |-> cell]

\* AtomicBool::compare_exchange(current, new, SeqCst, SeqCst): one atomic step
compare_exchange(cell, current, new) ==
    IF cell = current
    THEN [ok |-> TRUE, value |-> cell, cell |-> new]
    ELSE [ok |-> FALSE, value |-> cell, cell |-> cell]

\* a generate_task call that has not started
IdleCall == [pc |-> "idle", generated |-> FALSE, ret |-> "Pending", spawned |-> FALSE]
\* a connect_to call that has not started
IdleConnect == [pc |-> "idle", ret |-> "None", attempts |-> 0, ident_id |-> -1]

\* no ping_remote call is under way
IdlePing ==
    [pc |-> "idle", remote |-> 0, id |-> -1, sent_at |-> 0, quiet |-> 0, ret |-> "None"]

\* WNetwork::new on both nodes; callers are the handles that will call
\* generate_task on each node
NewNetwork(callers) ==
    /\ tasks_started = [n \in NetNodes |-> FALSE]
    /\ socket_holder = [n \in NetNodes |-> "Some"]
    /\ gen = [n \in NetNodes |-> [c \in callers |-> IdleCall]]
    /\ listener = [n \in NetNodes |-> "none"]
    /\ handles = [n \in NetNodes |-> {}]
    /\ counter = [n \in NetNodes |-> 0]
    /\ connect = [n \in NetNodes |-> IdleConnect]
    /\ task = [n \in NetNodes |-> "none"]
    /\ ident = [n \in NetNodes |-> "none"]
    /\ outbound = [n \in NetNodes |-> << >>]
    /\ wire = [n \in NetNodes |-> << >>]
    /\ direct_ch = [n \in NetNodes |-> << >>]
    /\ broadcast_ch = [n \in NetNodes |-> << >>]
    /\ got_direct = [n \in NetNodes |-> << >>]
    /\ got_broadcast = [n \in NetNodes |-> << >>]
    /\ sent = << >>
    /\ shutdown = [n \in NetNodes |-> FALSE]
    /\ issued = [n \in NetNodes |-> << >>]
    /\ waiters = [n \in NetNodes |-> << >>]
    /\ pk_s = [n \in NetNodes |-> TRUE]
    /\ pk_r = [n \in NetNodes |-> "alive"]
    /\ reported = [n \in NetNodes |-> << >>]
    /\ ping = [n \in NetNodes |-> IdlePing]
    /\ now = 0
    /\ last_message = [n \in NetNodes |-> 0]

\* the accumulator specifications have no network
NoNetwork == NewNetwork({})

(***************************************************************************)
(* WNetwork::generate_task.  The function is synchronous; its one access   *)
(* to shared state is the compare_exchange.  The caller may spawn the      *)
(* tasks of a Some; the listener task then takes the socket.               *)
(***************************************************************************)
GenerateTaskExchange ==
    \E n \in NetNodes : \E c \in DOMAIN gen[n] :
    /\ gen[n][c].pc = "idle"
    /\ LET r == compare_exchange(tasks_started[n], FALSE, TRUE)
       IN  /\ tasks_started' = [tasks_started EXCEPT ![n] = r.cell]
           \* .unwrap_or(true): Ok(previous) is the previous value, Err(_) is true
           /\ gen' = [gen EXCEPT ![n][c] =
                        [@ EXCEPT !.pc = "exchanged",
                                  !.generated = IF r.ok THEN r.value ELSE TRUE]]
    /\ UNCHANGED <<accvars, connvars, socket_holder, listener, handles, counter, connect, task, ident,
                   outbound, wire, direct_ch, broadcast_ch, got_direct, got_broadcast,
                   sent>>

GenerateTaskReturn ==
    \E n \in NetNodes : \E c \in DOMAIN gen[n] :
    /\ gen[n][c].pc = "exchanged"
    /\ gen' = [gen EXCEPT ![n][c] =
                 [@ EXCEPT !.pc = "returned",
                           !.ret = IF gen[n][c].generated THEN "None" ELSE "Some"]]
    /\ UNCHANGED <<accvars, connvars, tasks_started, socket_holder, listener, handles, counter, connect,
                   task, ident, outbound, wire, direct_ch, broadcast_ch, got_direct,
                   got_broadcast, sent>>

\* the caller spawns the futures of a Some: listener_future takes the socket
\* (socket_holder.lock().await.take().unwrap())
SpawnTasks ==
    \E n \in NetNodes : \E c \in DOMAIN gen[n] :
    /\ gen[n][c].pc = "returned" /\ gen[n][c].ret = "Some" /\ ~gen[n][c].spawned
    /\ gen' = [gen EXCEPT ![n][c] = [@ EXCEPT !.spawned = TRUE]]
    /\ IF socket_holder[n] = "Some"
       THEN /\ socket_holder' = [socket_holder EXCEPT ![n] = "None"]
            /\ listener' = [listener EXCEPT ![n] = "running"]
       ELSE /\ listener' = [listener EXCEPT ![n] = "panicked"]
            /\ UNCHANGED socket_holder
    /\ UNCHANGED <<accvars, connvars, tasks_started, handles, counter, connect, task, ident, outbound,
                   wire, direct_ch, broadcast_ch, got_direct, got_broadcast, sent>>

(***************************************************************************)
(* WNetwork::connect_to and the identity handshake of spawn_task.  The     *)
(* driver connects node 1 to node 2; either node may call connect_to for a *)
(* key it already holds or for a peer that is not listening.               *)
(***************************************************************************)
\* a call that has returned: to is the set of keys whose handle it visited
Call(op, from, to, inner, result) ==
    [op |-> op, from |-> from, to |-> to, inner |-> inner, ret |-> result]

\* DashMap::contains_key on handles
ContainsKey(table, key) == key \in table

\* mutant of fetch_add: the counter is read and not advanced
FetchAddNoStore(cell, val) == [value |-> cell, cell |-> cell]

\* AtomicU64::fetch_add(val, SeqCst): one atomic step that returns the
\* previous value
fetch_add(cell, val) == [value |-> cell, cell |-> cell + val]

\* WNetwork::get_next_message_id on node n, and the effect of a call that
\* returned r
get_next_message_id(n) == fetch_add(counter[n], 1)
TookId(n, r) ==
    /\ counter' = [counter EXCEPT ![n] = r.cell]
    /\ issued' = [issued EXCEPT ![n] = Append(@, r.value)]

\* the node whose driver opens the connection; the other end is accepted by
\* the listener task
Connector == 1

\* connect_to up to its first await that depends on the peer
ConnectTo ==
    \E n \in NetNodes :
    /\ connect[n].pc = "idle"
    /\ IF ContainsKey(handles[n], Peer(n))
       THEN \* "Already have a connection to node"
            /\ connect' = [connect EXCEPT ![n] = [IdleConnect EXCEPT !.ret = "Ok"]]
            /\ UNCHANGED <<counter, issued, waiters, task, wire, last_message>>
       ELSE IF listener[Peer(n)] # "running"
       THEN \* TcpStream::connect(addr).await.context(ExecutorError)?
            /\ connect' = [connect EXCEPT ![n] =
                             [IdleConnect EXCEPT !.ret = "Err", !.attempts = 1]]
            /\ UNCHANGED <<counter, issued, waiters, task, wire, last_message>>
       ELSE \* the connection opens; spawn_task(Some(key)) registers the ack
            \* waiter, sends Identify and spawns the task, the peer's listener
            \* runs spawn_task(None)
            /\ n = Connector /\ task[n] = "none"
            /\ LET r == get_next_message_id(n)
               IN  /\ TookId(n, r)
                   /\ waiters' = [waiters EXCEPT ![n] = Append(@, r.value)]
                   /\ connect' = [connect EXCEPT ![n] =
                                    [pc |-> "awaiting_ack", ret |-> "None", attempts |-> 1,
                                     ident_id |-> r.value]]
                   /\ wire' = [wire EXCEPT ![n] =
                                 Append(@, BincodeSerialize(Identify(n, r.value)).bytes)]
            /\ task' = [m \in NetNodes |-> "running"]
            /\ last_message' = [m \in NetNodes |-> now]
    /\ UNCHANGED <<accvars, tasks_started, socket_holder, gen, listener, handles, ident, outbound,
                   direct_ch, broadcast_ch, got_direct, got_broadcast, sent,
                   shutdown, pk_s, pk_r, reported, ping, now>>

\* the Ack of the Identify has arrived: spawn_task(Some(key)) returns, which
\* drops its pk_r, and connect_to stores the handle
ConnectReturn ==
    \E n \in NetNodes :
    /\ connect[n].pc = "acked"
    /\ handles' = [handles EXCEPT ![n] = @ \cup {Peer(n)}]
    /\ connect' = [connect EXCEPT ![n] = [@ EXCEPT !.pc = "idle", !.ret = "Ok"]]
    /\ pk_r' = [pk_r EXCEPT ![n] = "dropped"]
    /\ UNCHANGED <<accvars, tasks_started, socket_holder, gen, listener, counter, task, ident,
                   outbound, wire, direct_ch, broadcast_ch, got_direct, got_broadcast,
                   sent, shutdown, issued, waiters, pk_s, reported, ping, now, last_message>>

\* the listener has the peer's key from pk_r and stores the handle under it
ListenerInsert ==
    \E n \in NetNodes :
    /\ ident[n] = "received"
    /\ handles' = [handles EXCEPT ![n] = @ \cup {Head(reported[n])}]
    /\ ident' = [ident EXCEPT ![n] = "stored"]
    /\ UNCHANGED <<accvars, connvars, tasks_started, socket_holder, gen, listener, counter, connect, task,
                   outbound, wire, direct_ch, broadcast_ch, got_direct, got_broadcast,
                   sent>>

(***************************************************************************)
(* The connection task of spawn_task: Combo::Command (a command from the   *)
(* outbound queue is encoded and written), Combo::Message (a frame is      *)
(* read, decoded and handed to process_command) and Combo::Error.  A task  *)
(* that sets shutdown leaves its loop at once, so the test of shutdown at  *)
(* the head of the loop is never met by a running task.                    *)
(***************************************************************************)
TaskCommand ==
    \E n \in NetNodes :
    /\ task[n] = "running" /\ outbound[n] # << >>
    /\ outbound' = [outbound EXCEPT ![n] = Tail(@)]
    /\ IF BincodeSerialize(Head(outbound[n])).ok
       THEN /\ wire' = [wire EXCEPT ![n] =
                          Append(@, BincodeSerialize(Head(outbound[n])).bytes)]
            /\ UNCHANGED task
       ELSE \* .expect_or_log("Failed to serialize a command. ...") panics
            /\ task' = [task EXCEPT ![n] = "panicked"]
            /\ UNCHANGED wire
    /\ UNCHANGED <<accvars, connvars, tasks_started, socket_holder, gen, listener, handles, counter, connect,
                   ident, direct_ch, broadcast_ch, got_direct, got_broadcast, sent>>

\* process_command: the queue a command is put on, "ack" for an Ack, "some"
\* for the commands handed back to the task (Identify, Ping)
process_command(command) ==
    IF command.tag = "Broadcast" THEN "broadcast"
    ELSE IF command.tag = "Direct" THEN "direct"
    ELSE IF command.tag = "Ack" THEN "ack"
    ELSE "some"

\* mutant of IdentifyStep: every Identify is sent through a fresh pk_s
IdentifyStepEveryTime(has_pk_s, receiver) ==
    IF receiver = "alive" THEN "report" ELSE "shutdown"

\* what the task does with an Identify before acking it: pk_s.take() gives the
\* sender once; sending fails when pk_r is gone, and the task shuts down
IdentifyStep(has_pk_s, receiver) ==
    IF ~has_pk_s THEN "ignore"
    ELSE IF receiver = "alive" THEN "report"
    ELSE "shutdown"

TaskMessage ==
    \E n \in NetNodes :
    /\ task[n] = "running" /\ wire[Peer(n)] # << >>
    /\ LET res == BincodeDeserialize(Head(wire[Peer(n)]))
           command == res.command
           route == IF res.ok THEN process_command(command) ELSE "skip"
           identify == route = "some" /\ command.tag = "Identify"
           step == IF identify THEN IdentifyStep(pk_s[n], pk_r[n]) ELSE "none"
           acks == route = "some" /\ step # "shutdown"
           r == get_next_message_id(n)
       IN  /\ last_message' = [last_message EXCEPT ![n] = now]
           /\ direct_ch' = [direct_ch EXCEPT ![n] =
                              IF route = "direct" THEN Append(@, command.inner) ELSE @]
           /\ broadcast_ch' = [broadcast_ch EXCEPT ![n] =
                              IF route = "broadcast" THEN Append(@, command.inner) ELSE @]
           \* waiters.acked.remove(&ack_id) wakes the connect_to or the
           \* ping_remote that waits for it
           /\ connect' = [connect EXCEPT ![n] =
                              IF /\ route = "ack" /\ @.pc = "awaiting_ack"
                                 /\ @.ident_id = command.ack_id
                              THEN [@ EXCEPT !.pc = "acked"] ELSE @]
           /\ ping' = [ping EXCEPT ![n] =
                              IF /\ route = "ack" /\ @.pc = "waiting"
                                 /\ @.id = command.ack_id
                              THEN [@ EXCEPT !.pc = "acked"] ELSE @]
           \* Identify: pk_s.take() sends the key once
           /\ pk_s' = [pk_s EXCEPT ![n] = IF identify THEN FALSE ELSE @]
           /\ reported' = [reported EXCEPT ![n] =
                              IF step = "report" THEN Append(@, command.from) ELSE @]
           /\ ident' = [ident EXCEPT ![n] =
                              IF step = "report" /\ n # Connector /\ @ = "none"
                              THEN "received" ELSE @]
           /\ shutdown' = [shutdown EXCEPT ![n] = IF step = "shutdown" THEN TRUE ELSE @]
           /\ task' = [task EXCEPT ![n] = IF step = "shutdown" THEN "stopped" ELSE @]
           \* Identify and Ping are answered with an Ack carrying their id
           /\ IF acks
              THEN /\ wire' = [wire EXCEPT
                                 ![Peer(n)] = Tail(@),
                                 ![n] = Append(@, BincodeSerialize(
                                                     Ack(command.id, r.value)).bytes)]
                   /\ TookId(n, r)
              ELSE /\ wire' = [wire EXCEPT ![Peer(n)] = Tail(@)]
                   /\ UNCHANGED <<counter, issued>>
    /\ UNCHANGED <<accvars, tasks_started, socket_holder, gen, listener, handles, outbound,
                   got_direct, got_broadcast, sent, waiters, pk_r, now>>

\* Combo::Error, Message::Close or a failed write: the task sets shutdown and
\* leaves its loop
StreamError ==
    \E n \in NetNodes :
    /\ task[n] = "running"
    /\ shutdown' = [shutdown EXCEPT ![n] = TRUE]
    /\ task' = [task EXCEPT ![n] = "stopped"]
    /\ UNCHANGED <<accvars, tasks_started, socket_holder, gen, listener, handles, counter,
                   connect, ident, outbound, wire, direct_ch, broadcast_ch, got_direct,
                   got_broadcast, sent, issued, waiters, pk_s, pk_r, reported, ping, now,
                   last_message>>

\* a peer that is not a WNetwork writes one more Identify on the connection,
\* under its own key or under another one
ForeignKey == 3
StrayId == 99
StrayIdentify ==
    \E n \in NetNodes : \E from \in {n, ForeignKey} :
    /\ task[Peer(n)] = "running"
    /\ Len(sent) < MaxSends
    /\ wire' = [wire EXCEPT ![n] = Append(@, BincodeSerialize(Identify(from, StrayId)).bytes)]
    /\ sent' = Append(sent, Call("identify", n, {Peer(n)}, from, "Ok"))
    /\ UNCHANGED <<accvars, connvars, tasks_started, socket_holder, gen, listener, handles,
                   counter, connect, task, ident, outbound, direct_ch, broadcast_ch,
                   got_direct, got_broadcast>>

(***************************************************************************)
(* The patrol task of generate_task and ping_remote.  Time is a clock of   *)
(* whole units; sleeps and timeouts end at or after their deadline.        *)
(***************************************************************************)
\* WNetworkInner::keep_alive_duration, in units of the clock
KeepAlive == 2

Tick ==
    /\ now < MaxTime
    /\ now' = now + 1
    /\ UNCHANGED <<accvars, tasks_started, socket_holder, gen, listener, handles, counter,
                   connect, task, ident, outbound, wire, direct_ch, broadcast_ch, got_direct,
                   got_broadcast, sent, shutdown, issued, waiters, pk_s, pk_r, reported,
                   ping, last_message>>

\* mutant of Stale: any handle is pinged
StaleAlways(duration) == TRUE

\* duration >= sleep_dur, for the duration since the handle's last message
Stale(duration) == duration >= KeepAlive

\* the patrol task wakes up, finds a handle whose last message is stale and
\* spawns ping_remote for it (one ping_remote call per node is followed)
PatrolPing ==
    \E n \in NetNodes : \E remote \in handles[n] :
    /\ gen[n] # << >> /\ \E c \in DOMAIN gen[n] : gen[n][c].spawned
    /\ ping[n].pc = "idle"
    /\ now >= last_message[n] /\ Stale(now - last_message[n])
    /\ ping' = [ping EXCEPT ![n] = [IdlePing EXCEPT !.pc = "spawned", !.remote = remote,
                                                    !.quiet = now - last_message[n]]]
    /\ UNCHANGED <<accvars, tasks_started, socket_holder, gen, listener, handles, counter,
                   connect, task, ident, outbound, wire, direct_ch, broadcast_ch, got_direct,
                   got_broadcast, sent, shutdown, issued, waiters, pk_s, pk_r, reported,
                   now, last_message>>

\* ping_remote up to its await of the Ack: the id is taken, the waiter
\* registered and the Ping queued; when it cannot be queued the remote is
\* removed from handles
PingRemoteSend ==
    \E n \in NetNodes :
    /\ ping[n].pc = "spawned"
    /\ LET r == get_next_message_id(n)
       IN  /\ TookId(n, r)
           /\ waiters' = [waiters EXCEPT ![n] = Append(@, r.value)]
           /\ IF task[n] = "running"
              THEN /\ outbound' = [outbound EXCEPT ![n] = Append(@, Ping(r.value))]
                   /\ ping' = [ping EXCEPT ![n] =
                                 [@ EXCEPT !.pc = "waiting", !.id = r.value, !.sent_at = now]]
                   /\ UNCHANGED handles
              ELSE /\ handles' = [handles EXCEPT ![n] = @ \ {ping[n].remote}]
                   /\ ping' = [ping EXCEPT ![n] =
                                 [@ EXCEPT !.pc = "done", !.id = r.value, !.sent_at = now,
                                           !.ret = "not_queued"]]
                   /\ UNCHANGED outbound
    /\ UNCHANGED <<accvars, tasks_started, socket_holder, gen, listener, connect, task, ident,
                   wire, direct_ch, broadcast_ch, got_direct, got_broadcast, sent,
                   shutdown, pk_s, pk_r, reported, now, last_message>>

\* timeout(duration, recv) finds the Ack: handles is left alone
PingRemoteAcked ==
    \E n \in NetNodes :
    /\ ping[n].pc = "acked"
    /\ ping' = [ping EXCEPT ![n] = [@ EXCEPT !.pc = "done", !.ret = "acked"]]
    /\ UNCHANGED <<accvars, tasks_started, socket_holder, gen, listener, handles, counter,
                   connect, task, ident, outbound, wire, direct_ch, broadcast_ch, got_direct,
                   got_broadcast, sent, shutdown, issued, waiters, pk_s, pk_r, reported,
                   now, last_message>>

\* timeout(duration, recv) expires with no Ack: the remote is removed
PingRemoteTimeout ==
    \E n \in NetNodes :
    /\ ping[n].pc = "waiting"
    /\ now - ping[n].sent_at >= KeepAlive
    /\ handles' = [handles EXCEPT ![n] = @ \ {ping[n].remote}]
    /\ ping' = [ping EXCEPT ![n] = [@ EXCEPT !.pc = "done", !.ret = "timed_out"]]
    /\ UNCHANGED <<accvars, tasks_started, socket_holder, gen, listener, counter,
                   connect, task, ident, outbound, wire, direct_ch, broadcast_ch, got_direct,
                   got_broadcast, sent, shutdown, issued, waiters, pk_s, pk_r, reported,
                   now, last_message>>

(***************************************************************************)
(* NetworkingImplementation: message_node, broadcast_message, next_direct  *)
(* and next_broadcast.  A send on outbound fails when the task that holds  *)
(* the receiver is gone.                                                   *)
(***************************************************************************)
\* mutant of ShutDown: the flag is not consulted
ShutDownNever(flag) == FALSE

\* *handle.shutdown.read().await
ShutDown(flag) == flag

MessageNode ==
    \E n \in NetNodes : \E m \in Msgs :
    /\ Len(sent) < MaxSends
    /\ IF ~ContainsKey(handles[n], Peer(n))
       THEN /\ sent' = Append(sent, Call("message_node", n, {}, m, "NoSuchNode"))
            /\ UNCHANGED <<counter, issued, outbound>>
       ELSE IF ShutDown(shutdown[n])
       THEN /\ sent' = Append(sent, Call("message_node", n, {}, m, "CouldNotDeliver"))
            /\ UNCHANGED <<counter, issued, outbound>>
       ELSE /\ TookId(n, get_next_message_id(n))
            /\ IF task[n] = "running"
               THEN /\ outbound' = [outbound EXCEPT ![n] =
                                      Append(@, Direct(m, n, Peer(n),
                                                       get_next_message_id(n).value))]
                    /\ sent' = Append(sent, Call("message_node", n, {Peer(n)}, m, "Ok"))
               ELSE /\ sent' = Append(sent, Call("message_node", n, {Peer(n)}, m, "CouldNotDeliver"))
                    /\ UNCHANGED outbound
    /\ UNCHANGED <<accvars, tasks_started, socket_holder, gen, listener, handles, connect, task,
                   ident, wire, direct_ch, broadcast_ch, got_direct, got_broadcast,
                   shutdown, waiters, pk_s, pk_r, reported, ping, now, last_message>>

\* the loop over handles visits at most the one key a node can hold
BroadcastMessage ==
    \E n \in NetNodes : \E m \in Msgs :
    /\ Len(sent) < MaxSends
    /\ IF handles[n] = {}
       THEN /\ sent' = Append(sent, Call("broadcast_message", n, {}, m, "Ok"))
            /\ UNCHANGED <<counter, issued, outbound>>
       ELSE IF ShutDown(shutdown[n])
       THEN /\ sent' = Append(sent, Call("broadcast_message", n, {}, m, "CouldNotDeliver"))
            /\ UNCHANGED <<counter, issued, outbound>>
       ELSE /\ TookId(n, get_next_message_id(n))
            /\ IF task[n] = "running"
               THEN /\ outbound' = [outbound EXCEPT ![n] =
                                      Append(@, Broadcast(m, n, get_next_message_id(n).value))]
                    /\ sent' = Append(sent, Call("broadcast_message", n, handles[n], m, "Ok"))
               ELSE /\ sent' = Append(sent, Call("broadcast_message", n, handles[n], m,
                                                  "CouldNotDeliver"))
                    /\ UNCHANGED outbound
    /\ UNCHANGED <<accvars, tasks_started, socket_holder, gen, listener, handles, connect, task,
                   ident, wire, direct_ch, broadcast_ch, got_direct, got_broadcast,
                   shutdown, waiters, pk_s, pk_r, reported, ping, now, last_message>>

NextDirect ==
    \E n \in NetNodes :
    /\ direct_ch[n] # << >>
    /\ got_direct' = [got_direct EXCEPT ![n] = Append(@, Head(direct_ch[n]))]
    /\ direct_ch' = [direct_ch EXCEPT ![n] = Tail(@)]
    /\ UNCHANGED <<accvars, connvars, tasks_started, socket_holder, gen, listener, handles, counter, connect,
                   task, ident, outbound, wire, broadcast_ch, got_broadcast, sent>>

NextBroadcast ==
    \E n \in NetNodes :
    /\ broadcast_ch[n] # << >>
    /\ got_broadcast' = [got_broadcast EXCEPT ![n] = Append(@, Head(broadcast_ch[n]))]
    /\ broadcast_ch' = [broadcast_ch EXCEPT ![n] = Tail(@)]
    /\ UNCHANGED <<accvars, connvars, tasks_started, socket_holder, gen, listener, handles, counter, connect,
                   task, ident, outbound, wire, direct_ch, got_direct, sent>>

(***************************************************************************)
(* Specifications of the network: generate_task alone under NumCallers     *)
(* callers per node (SpecTasks), and two nodes started by one caller each, *)
(* connected and exchanging messages (SpecNet, SpecNetFair).               *)
(***************************************************************************)
NoAccumulator ==
    /\ kind = "None" /\ config = << >> /\ acc = << >>
    /\ status = "none" /\ ret = "None" /\ exit = "None" /\ cert = NoCert
    /\ pending = {} /\ delivered = << >>

InitTasks == NoAccumulator /\ NewNetwork(1 .. NumCallers)

NextTasks == GenerateTaskExchange \/ GenerateTaskReturn \/ SpawnTasks

SpecTasks == InitTasks /\ [][NextTasks]_vars

InitNet == NoAccumulator /\ NewNetwork({1})

NextNet ==
    \/ GenerateTaskExchange \/ GenerateTaskReturn \/ SpawnTasks
    \/ ConnectTo \/ ConnectReturn \/ ListenerInsert
    \/ TaskCommand \/ TaskMessage
    \/ MessageNode \/ BroadcastMessage \/ NextDirect \/ NextBroadcast

SpecNet == InitNet /\ [][NextNet]_vars

\* two started nodes after connect_to(key2, addr2) returned Ok on node 1 and
\* the listener of node 2 stored the handle: a state SpecNet reaches
ConnectedAt(quiet) ==
    /\ tasks_started = [n \in NetNodes |-> TRUE]
    /\ socket_holder = [n \in NetNodes |-> "None"]
    /\ gen = [n \in NetNodes |->
                [c \in {1} |-> [pc |-> "returned", generated |-> FALSE, ret |-> "Some",
                                spawned |-> TRUE]]]
    /\ listener = [n \in NetNodes |-> "running"]
    /\ handles = [n \in NetNodes |-> {Peer(n)}]
    /\ counter = [n \in NetNodes |-> 1]
    /\ connect = [n \in NetNodes |->
                    IF n = Connector
                    THEN [pc |-> "idle", ret |-> "Ok", attempts |-> 1, ident_id |-> 0]
                    ELSE IdleConnect]
    /\ task = [n \in NetNodes |-> "running"]
    /\ ident = [n \in NetNodes |-> IF n = Connector THEN "none" ELSE "stored"]
    /\ outbound = [n \in NetNodes |-> << >>]
    /\ wire = [n \in NetNodes |-> << >>]
    /\ direct_ch = [n \in NetNodes |-> << >>]
    /\ broadcast_ch = [n \in NetNodes |-> << >>]
    /\ got_direct = [n \in NetNodes |-> << >>]
    /\ got_broadcast = [n \in NetNodes |-> << >>]
    /\ sent = << >>
    /\ shutdown = [n \in NetNodes |-> FALSE]
    /\ issued = [n \in NetNodes |-> <<0>>]
    /\ waiters = [n \in NetNodes |-> IF n = Connector THEN <<0>> ELSE << >>]
    /\ pk_s = [n \in NetNodes |-> n = Connector]
    /\ pk_r = [n \in NetNodes |-> IF n = Connector THEN "dropped" ELSE "alive"]
    /\ reported = [n \in NetNodes |-> IF n = Connector THEN << >> ELSE <<Connector>>]
    /\ ping = [n \in NetNodes |-> IdlePing]
    /\ now = quiet
    /\ last_message = [n \in NetNodes |-> 0]

\* the pair right after the handshake
Connected == ConnectedAt(0)

\* the keep-alive on a connected pair: the patrol task with its ping, the
\* clock, and a connection that may break
InitKeep == NoAccumulator /\ Connected

NextKeep ==
    \/ TaskCommand \/ TaskMessage \/ StreamError
    \/ PatrolPing \/ PingRemoteSend \/ PingRemoteAcked \/ PingRemoteTimeout \/ Tick

SpecKeep == InitKeep /\ [][NextKeep]_vars

\* senders, ping tasks and connection handlers of a pair that has been silent
\* for keep_alive_duration since the handshake; the connection may break
InitIds == NoAccumulator /\ ConnectedAt(KeepAlive)

NextIds ==
    \/ TaskCommand \/ TaskMessage \/ StreamError
    \/ MessageNode
    \/ PatrolPing \/ PingRemoteSend \/ PingRemoteAcked

SpecIds == InitIds /\ [][NextIds]_vars

\* the handshake with a peer that may repeat its Identify
NextIdent ==
    \/ GenerateTaskExchange \/ GenerateTaskReturn \/ SpawnTasks
    \/ ConnectTo \/ ConnectReturn \/ ListenerInsert
    \/ TaskMessage \/ StrayIdentify

SpecIdent == InitNet /\ [][NextIdent]_vars

\* the executor runs every spawned task and every pending future
SpecNetFair ==
    /\ SpecNet
    /\ WF_vars(TaskCommand)
    /\ WF_vars(TaskMessage)
    /\ WF_vars(ConnectReturn)
    /\ WF_vars(ListenerInsert)
    /\ WF_vars(NextDirect)
    /\ WF_vars(NextBroadcast)


\* the instances explored: the type of accumulator and its committee
Instances ==
    { <<"DA", Unit4>>, <<"DA", Mixed4>>,
      <<"Quorum", Unit3>>, <<"Quorum", Mixed3>>,
      <<"ViewSync", Pair3>>, <<"ViewSync", Mixed3>> }

\* the unified accumulator and its committee
LegacyInstances == { <<"Unified", Mixed3>> }

TagsOf(k) ==
    IF k = "DA" THEN DATags
    ELSE IF k = "Quorum" THEN QuorumTags
    ELSE IF k = "ViewSync" THEN ViewSyncTags
    ELSE VoteDataTags

NewAccumulator(k, cfg) ==
    IF k = "DA" THEN NewDAVoteAccumulator(cfg)
    ELSE IF k = "Quorum" THEN NewQuorumVoteAccumulator(cfg)
    ELSE IF k = "ViewSync" THEN NewViewSyncVoteAccumulator(cfg)
    ELSE NewVoteAccumulator(cfg)

\* the entries handed to every append: position i holds key i with its stake
StakeTableEntries(cfg) == [i \in Nodes(cfg) |-> [key |-> i, stake |-> StakeOf(cfg, i)]]

FreshOf(instances) ==
    /\ \E inst \in instances : kind = inst[1] /\ config = inst[2]
    /\ acc = NewAccumulator(kind, config)
    /\ status = "live"
    /\ ret = "None"
    /\ exit = "None"
    /\ cert = NoCert
    /\ NoNetwork

Fresh == FreshOf(Instances)

Init ==
    /\ Fresh
    /\ pending = {}
    /\ delivered = << >>

(***************************************************************************)
(* Inputs of append: pairs <<vote, vote_node_id>>.  A voter k signs with   *)
(* key k and token StakeOf(config, k).  The caller passes the voter's own  *)
(* position; for the voters in Misrouted it may also pass the next         *)
(* position or an index outside the bitvec.  Votes of a tag that belongs to another    *)
(* accumulator type are sent by voter 0 on commitment 1.                   *)
(***************************************************************************)
Misrouted == {0}

Positions(cfg, k) ==
    IF k \in Misrouted THEN {k, (k + 1) % Len(cfg.stake), Len(cfg.stake)} ELSE {k}

VoteOf(cfg, k, tag, c) == MkVote(k, tag, c, StakeOf(cfg, k))

Calls(knd, cfg) ==
    { <<VoteOf(cfg, x[1], x[2], x[3]), x[4]>> :
        x \in { y \in Nodes(cfg) \X TagsOf(knd) \X Commitments \X (0 .. Len(cfg.stake)) :
                    y[4] \in Positions(cfg, y[1]) } }
    \cup { <<VoteOf(cfg, 0, tag, 1), 0>> : tag \in VoteDataTags \ TagsOf(knd) }

\* a quorum vote of the Timeout variant, from a committee member at its position
TimeoutCalls(cfg) == { <<MkTimeoutVote(0, 1, StakeOf(cfg, 0)), 0>> }

\* the calls of each instance, and those of the instance at hand
CallTable == [inst \in Instances \cup LegacyInstances |-> Calls(inst[1], inst[2])]
CallsHere == CallTable[<<kind, config>>]

\* append of the instance's type
AppendOf(knd, self, v, i, entries) ==
    IF knd = "DA" THEN DAVoteAccumulatorAppend(self, v, i, entries)
    ELSE IF knd = "Quorum" THEN QuorumVoteAccumulatorAppend(self, v, i, entries)
    ELSE IF knd = "ViewSync" THEN ViewSyncVoteAccumulatorAppend(self, v, i, entries)
    ELSE VoteAccumulatorAppend(self, ValOf(v, i, entries))

\* mutant of Apply: the caller keeps using the accumulator after Right
ApplyWithoutConsuming(r) ==
    /\ acc' = r.acc
    /\ ret' = r.tag
    /\ exit' = r.exit
    /\ cert' = r.cert
    /\ status' = IF r.tag = "Panic" THEN "panicked" ELSE "live"
    /\ UNCHANGED <<kind, config, netvars>>

\* the accumulator is moved into append; the caller keeps what it returns
Apply(r) ==
    /\ acc' = r.acc
    /\ ret' = r.tag
    /\ exit' = r.exit
    /\ cert' = r.cert
    /\ status' = IF r.tag = "Right" THEN "fired"
                 ELSE IF r.tag = "Panic" THEN "panicked" ELSE "live"
    /\ UNCHANGED <<kind, config, netvars>>

DAAppend ==
    /\ kind = "DA" /\ status = "live"
    /\ \E call \in CallsHere :
          Apply(DAVoteAccumulatorAppend(acc, call[1], call[2], StakeTableEntries(config)))
    /\ UNCHANGED <<pending, delivered>>

QuorumAppend ==
    /\ kind = "Quorum" /\ status = "live"
    /\ \E call \in CallsHere \cup TimeoutCalls(config) :
          Apply(QuorumVoteAccumulatorAppend(acc, call[1], call[2], StakeTableEntries(config)))
    /\ UNCHANGED <<pending, delivered>>

ViewSyncAppend ==
    /\ kind = "ViewSync" /\ status = "live"
    /\ \E call \in CallsHere :
          Apply(ViewSyncVoteAccumulatorAppend(acc, call[1], call[2], StakeTableEntries(config)))
    /\ UNCHANGED <<pending, delivered>>

Next == DAAppend \/ QuorumAppend \/ ViewSyncAppend

Spec == Init /\ [][Next]_vars

(***************************************************************************)
(* The unified accumulator alone (SpecLegacy), and every accumulator type  *)
(* (SpecAll).                                                              *)
(***************************************************************************)
InitLegacy ==
    /\ FreshOf(LegacyInstances)
    /\ pending = {}
    /\ delivered = << >>

InitAll ==
    /\ FreshOf(Instances \cup LegacyInstances)
    /\ pending = {}
    /\ delivered = << >>

UnifiedAppend ==
    /\ kind = "Unified" /\ status = "live"
    /\ \E call \in CallsHere :
          Apply(VoteAccumulatorAppend(acc, ValOf(call[1], call[2], StakeTableEntries(config))))
    /\ UNCHANGED <<pending, delivered>>

NextLegacy == UnifiedAppend

SpecLegacy == InitLegacy /\ [][NextLegacy]_vars

NextAll == Next \/ UnifiedAppend

SpecAll == InitAll /\ [][NextAll]_vars

(***************************************************************************)
(* Every accumulator type over a committee of unequal stakes (SpecMixed):  *)
(* a vote then weighs differently from voter to voter, and the Quorum      *)
(* committee of equal stakes is kept for the tallies that need three       *)
(* votes.                                                                  *)
(***************************************************************************)
MixedInstances ==
    { <<"DA", Mixed4>>, <<"Quorum", Mixed3>>, <<"Quorum", Unit3>>,
      <<"ViewSync", Mixed3>>, <<"Unified", Mixed3>> }

InitMixed ==
    /\ FreshOf(MixedInstances)
    /\ pending = {}
    /\ delivered = << >>

SpecMixed == InitMixed /\ [][NextAll]_vars

(***************************************************************************)
(* Delivery of a fixed set of votes.  The driver holds a set of at most    *)
(* MaxVotes votes, each submitted under its voter's own position, and      *)
(* appends them one by one in some order until the accumulator is consumed *)
(* or the set is exhausted.                                                *)
(***************************************************************************)
\* the votes of a set are on one of two commitments
OrderCommitments == {1, 2}

OrderCalls(knd, cfg) ==
    { <<VoteOf(cfg, k, tag, c), k>> :
        k \in Nodes(cfg), tag \in TagsOf(knd), c \in OrderCommitments }

\* the subsets of S with at most n elements
RECURSIVE SubsetsUpTo(_, _)
SubsetsUpTo(S, n) ==
    IF n = 0 THEN {{}}
    ELSE LET smaller == SubsetsUpTo(S, n - 1)
         IN  smaller \cup { T \cup {x} : T \in smaller, x \in S }

InitOrder ==
    /\ Fresh
    /\ pending \in SubsetsUpTo(OrderCalls(kind, config), MaxVotes)
    /\ delivered = << >>

Deliver(call) ==
    /\ pending' = pending \ {call}
    /\ delivered' = Append(delivered, call)

DADeliver ==
    /\ kind = "DA" /\ status = "live"
    /\ \E call \in pending :
          /\ Apply(DAVoteAccumulatorAppend(acc, call[1], call[2], StakeTableEntries(config)))
          /\ Deliver(call)

QuorumDeliver ==
    /\ kind = "Quorum" /\ status = "live"
    /\ \E call \in pending :
          /\ Apply(QuorumVoteAccumulatorAppend(acc, call[1], call[2], StakeTableEntries(config)))
          /\ Deliver(call)

ViewSyncDeliver ==
    /\ kind = "ViewSync" /\ status = "live"
    /\ \E call \in pending :
          /\ Apply(ViewSyncVoteAccumulatorAppend(acc, call[1], call[2], StakeTableEntries(config)))
          /\ Deliver(call)

NextOrder == DADeliver \/ QuorumDeliver \/ ViewSyncDeliver

SpecOrder == InitOrder /\ [][NextOrder]_vars

\* appending the calls of seq to self until Right or a panic, or to the end
RECURSIVE RunFrom(_, _, _, _)
RunFrom(knd, cfg, self, seq) ==
    IF seq = << >> THEN [tag |-> "Left", cert |-> NoCert, used |-> 0]
    ELSE LET r == AppendOf(knd, self, Head(seq)[1], Head(seq)[2], StakeTableEntries(cfg))
         IN  IF r.tag = "Left"
             THEN LET rest == RunFrom(knd, cfg, r.acc, Tail(seq))
                  IN  [rest EXCEPT !.used = @ + 1]
             ELSE [tag |-> r.tag, cert |-> r.cert, used |-> 1]

Run(knd, cfg, seq) == RunFrom(knd, cfg, NewAccumulator(knd, cfg), seq)

(***************************************************************************)
(* Vocabulary of the properties.  These read the accumulator directly and  *)
(* do not go through the append operators.                                 *)
(***************************************************************************)
Entries == StakeTableEntries(config)

\* what append of the instance's type returns for a call in the current state
Result(call) == AppendOf(kind, acc, call[1], call[2], Entries)

KeyOf(call) == call[1].signature[1]
TagOf(call) == call[1].vote_data.tag
CommitmentOf(call) == call[1].vote_data.commitment
CountOf(call) == call[1].vote_token.vote_count
ShareOf(call) == call[1].signature[2][2]

\* accumulated stake and recorded keys under c; nothing when c has no entry
Stake(map, c) == IF c \in DOMAIN map THEN map[c].stake ELSE 0
Keys(map, c) == IF c \in DOMAIN map THEN DOMAIN map[c].voters ELSE {}

\* the VoteMaps of an accumulator, by field name
MapNames(knd) ==
    IF knd = "DA" THEN {"da_vote_outcomes"}
    ELSE IF knd = "Quorum"
    THEN {"total_vote_outcomes", "yes_vote_outcomes", "no_vote_outcomes"}
    ELSE IF knd = "ViewSync"
    THEN {"pre_commit_vote_outcomes", "commit_vote_outcomes", "finalize_vote_outcomes"}
    ELSE {"total_vote_outcomes", "da_vote_outcomes", "yes_vote_outcomes",
          "no_vote_outcomes", "viewsync_precommit_vote_outcomes",
          "viewsync_commit_vote_outcomes", "viewsync_finalize_vote_outcomes"}

\* the maps the encoded-key check of the type looks the key up in
KeyCheckMaps(knd) ==
    IF knd \in {"Quorum", "Unified"} THEN {"total_vote_outcomes"} ELSE MapNames(knd)

KeyRecorded(call) ==
    \E m \in KeyCheckMaps(kind) : KeyOf(call) \in Keys(acc[m], CommitmentOf(call))

PositionTaken(call) == call[2] \in DOMAIN acc.signers /\ acc.signers[call[2]]

InBitvec(call) == call[2] \in DOMAIN acc.signers

\* the call passes the kind filter and both duplicate checks, and its index
\* is a position of the bitvec, so that the vote is credited
Accepted(call) ==
    /\ TagOf(call) \in TagsOf(kind)
    /\ ~KeyRecorded(call)
    /\ ~PositionTaken(call)
    /\ InBitvec(call)

\* the tally of map m under the call's commitment once the call is credited
After(m, tag, call) ==
    Stake(acc[m], CommitmentOf(call)) + (IF TagOf(call) = tag THEN CountOf(call) ELSE 0)

PopCount(signers) == Cardinality({i \in DOMAIN signers : signers[i]})

Live == status = "live"

(***************************************************************************)
(* C1: Quorum firing rule.  An accepted Yes(c)/No(c) vote returns          *)
(* Right(Yes) when, with the vote credited, total_c and yes_c both reach   *)
(* success_threshold; otherwise Right(No) when total_c reaches             *)
(* success_threshold and no_c reaches failure_threshold; otherwise Left.   *)
(* Yes wins when both hold.  No other append returns Right.                *)
(***************************************************************************)
QuorumExpected(call) ==
    LET total == Stake(acc.total_vote_outcomes, CommitmentOf(call)) + CountOf(call)
        yes == After("yes_vote_outcomes", "Yes", call)
        no == After("no_vote_outcomes", "No", call)
    IN  IF total >= config.success_threshold /\ yes >= config.success_threshold
        THEN "Yes"
        ELSE IF total >= config.success_threshold /\ no >= config.failure_threshold
        THEN "No"
        ELSE "None"

C1_QuorumFiringRule ==
    (kind = "Quorum" /\ Live) =>
        \A call \in CallsHere :
            LET r == Result(call)
            IN  IF Accepted(call)
                THEN IF QuorumExpected(call) = "None"
                     THEN r.tag = "Left" /\ r.cert = NoCert
                     ELSE r.tag = "Right" /\ r.cert.kind = QuorumExpected(call)
                ELSE r.tag # "Right"

\* a Yes certificate was emitted although the No condition held as well
C1_Witness ==
    /\ kind = "Quorum" /\ status = "fired" /\ cert.kind = "Yes"
    /\ \E c \in DOMAIN acc.no_vote_outcomes :
          /\ acc.no_vote_outcomes[c].stake >= config.failure_threshold
          /\ Stake(acc.total_vote_outcomes, c) >= config.success_threshold

(***************************************************************************)
(* C2: a No certificate is never emitted while the Yes stake plus the No   *)
(* stake on the commitment is below success_threshold, even when the No    *)
(* stake alone has reached failure_threshold.                              *)
(***************************************************************************)
C2_NoPrematureNo ==
    (kind = "Quorum" /\ Live) =>
        \A call \in CallsHere :
            (Result(call).cert.kind = "No") =>
                After("yes_vote_outcomes", "Yes", call)
                    + After("no_vote_outcomes", "No", call) >= config.success_threshold

\* the last append credited a vote and returned Left although the No stake
\* has reached failure_threshold: participation is still below the quorum
C2_Witness ==
    /\ kind = "Quorum" /\ config = Unit3 /\ Live /\ exit = "credited"
    /\ \E c \in DOMAIN acc.no_vote_outcomes :
          /\ acc.no_vote_outcomes[c].stake >= config.failure_threshold
          /\ acc.yes_vote_outcomes[c].stake + acc.no_vote_outcomes[c].stake
                < config.success_threshold

(***************************************************************************)
(* C3: DA firing rule.  An accepted DA(c) vote returns Right(DA) exactly   *)
(* when the stake on c including the vote reaches success_threshold; every *)
(* other append with an index inside the bitvec returns Left.  With four   *)
(* unit-stake voters and threshold 3 the certificate is emitted by the     *)
(* third vote on a commitment, with three signers and three shares.        *)
(***************************************************************************)
SharesOn(sig_lists, c) == {j \in 1 .. Len(sig_lists) : sig_lists[j][3] = c}

C3_DAFiringRule ==
    /\ (kind = "DA" /\ Live) =>
          \A call \in CallsHere :
              LET r == Result(call)
                  reached == Stake(acc.da_vote_outcomes, CommitmentOf(call)) + CountOf(call)
                                >= config.success_threshold
              IN  IF Accepted(call)
                  THEN IF reached
                       THEN r.tag = "Right" /\ r.cert.kind = "DA"
                       ELSE r.tag = "Left" /\ r.cert = NoCert
                  ELSE IF InBitvec(call) THEN r.tag = "Left" ELSE r.tag # "Right"
    /\ (kind = "DA" /\ config = Unit4) =>
          /\ (\E c \in Commitments : Cardinality(SharesOn(acc.sig_lists, c)) = 3)
                => (status = "fired" /\ cert.kind = "DA")
          /\ status = "fired" =>
                /\ Cardinality(SharesOn(cert.sig_lists,
                                        cert.sig_lists[Len(cert.sig_lists)][3])) = 3
                /\ PopCount(cert.signers) = Len(cert.sig_lists)

\* voters 0, 1, 2 voted on one commitment: signers = 1110 and three shares
C3_Witness ==
    /\ kind = "DA" /\ config = Unit4 /\ status = "fired" /\ cert.kind = "DA"
    /\ cert.signers = [i \in Nodes(config) |-> i < 3]
    /\ Len(cert.sig_lists) = 3
    /\ cert.threshold = 3

(***************************************************************************)
(* C4: ViewSync firing rule.  With the accepted vote credited, the first   *)
(* of precommit_c >= failure_threshold (ViewSyncPreCommit), commit_c >=    *)
(* success_threshold (ViewSyncCommit), finalize_c >= success_threshold     *)
(* (ViewSyncFinalize) that holds is emitted; otherwise Left.               *)
(***************************************************************************)
ViewSyncExpected(call) ==
    IF After("pre_commit_vote_outcomes", "ViewSyncPreCommit", call)
            >= config.failure_threshold
    THEN "ViewSyncPreCommit"
    ELSE IF After("commit_vote_outcomes", "ViewSyncCommit", call)
            >= config.success_threshold
    THEN "ViewSyncCommit"
    ELSE IF After("finalize_vote_outcomes", "ViewSyncFinalize", call)
            >= config.success_threshold
    THEN "ViewSyncFinalize"
    ELSE "None"

C4_ViewSyncFiringRule ==
    (kind = "ViewSync" /\ Live) =>
        \A call \in CallsHere :
            LET r == Result(call)
            IN  IF Accepted(call)
                THEN IF ViewSyncExpected(call) = "None"
                     THEN r.tag = "Left" /\ r.cert = NoCert
                     ELSE r.tag = "Right" /\ r.cert.kind = ViewSyncExpected(call)
                ELSE r.tag # "Right"

\* two unit-stake PreCommit votes emitted ViewSyncPreCommit below the quorum
C4_Witness ==
    /\ kind = "ViewSync" /\ config = Pair3 /\ status = "fired"
    /\ cert.kind = "ViewSyncPreCommit"
    /\ PopCount(cert.signers) = 2
    /\ \A j \in 1 .. Len(cert.sig_lists) : cert.sig_lists[j][2] = "ViewSyncPreCommit"
    /\ PopCount(cert.signers) < config.success_threshold

(***************************************************************************)
(* Vocabulary of the delivery-order claims (SpecOrder).                    *)
(***************************************************************************)
\* the vote set of the run, the run being over, and how it ended
VoteSet == pending \cup {delivered[i] : i \in 1 .. Len(delivered)}
Done == status # "live" \/ pending = {}
OutcomeKind == IF status = "fired" THEN cert.kind ELSE "None"

\* the orders in which a set of calls can be delivered
Orders(S) ==
    { seq \in [1 .. Cardinality(S) -> S] :
        \A i, j \in 1 .. Cardinality(S) : seq[i] = seq[j] => i = j }

\* how a reference run ended
KindOf(run) == IF run.tag = "Right" THEN run.cert.kind ELSE "None"

\* no two calls of S come from the same voter
DistinctVoters(S) == \A a, b \in S : KeyOf(a) = KeyOf(b) => a = b

TotalStake(S) == SumPairs({ <<call, CountOf(call)>> : call \in S })

\* the thresholds cannot both be reached by disjoint parts of S
Undivided(S) ==
    /\ config.failure_threshold <= config.success_threshold
    /\ TotalStake(S) < config.success_threshold + config.failure_threshold

\* the shares of a certificate, without their order
ShareBag(sig_lists) ==
    [sh \in {sig_lists[i] : i \in 1 .. Len(sig_lists)} |->
        Cardinality({i \in 1 .. Len(sig_lists) : sig_lists[i] = sh})]

\* the subsequence of seq made of the calls in U
Restrict(seq, U) == LET In(call) == call \in U IN SelectSeq(seq, In)

\* position of a variant in its accumulator's threshold order (higher first)
Priority(variant) ==
    IF variant \in {"Yes", "ViewSyncPreCommit"} THEN 3
    ELSE IF variant \in {"No", "ViewSyncCommit", "DA"} THEN 2
    ELSE IF variant = "ViewSyncFinalize" THEN 1
    ELSE 0

C6_Claimed_SameContentInEveryOrder ==
    (Done /\ status = "fired") =>
        \A ord \in Orders(VoteSet) :
            LET other == Run(kind, config, ord)
            IN  other.tag = "Right" =>
                    /\ other.cert.signers = cert.signers
                    /\ ShareBag(other.cert.sig_lists) = ShareBag(cert.sig_lists)

(***************************************************************************)
(* C6 amended: for votes of pairwise distinct voters, the certificate      *)
(* carries the signers bits and the shares of exactly the votes delivered  *)
(* up to and including the firing one, the shares in delivery order; so    *)
(* two delivery orders that fire after the same votes carry the same       *)
(* signers bitset and the same shares up to their order.                   *)
(***************************************************************************)
C6_OrderIndependentContent ==
    (Done /\ status = "fired" /\ DistinctVoters(VoteSet)) =>
        /\ cert.signers =
              [i \in Nodes(config) |->
                  \E j \in 1 .. Len(delivered) : delivered[j][2] = i]
        /\ cert.sig_lists =
              [j \in 1 .. Len(delivered) |-> ShareOf(delivered[j])]
        /\ \A ord \in Orders(VoteSet) :
              LET other == Run(kind, config, ord)
              IN  (/\ other.tag = "Right"
                   /\ {ord[j] : j \in 1 .. other.used} =
                        {delivered[j] : j \in 1 .. Len(delivered)}) =>
                      /\ other.cert.signers = cert.signers
                      /\ ShareBag(other.cert.sig_lists) = ShareBag(cert.sig_lists)

\* a DA certificate from the votes of two voters, fired on the second
C6_Witness ==
    /\ kind = "DA" /\ config = Mixed4
    /\ status = "fired" /\ pending = {}
    /\ Len(delivered) = 2 /\ DistinctVoters(VoteSet)
    /\ PopCount(cert.signers) = 2 /\ Len(cert.sig_lists) = 2

StakeOn(map, c) ==
    SumPairs(UNION { { <<<<d, k>>, map[d].voters[k][3].vote_count>> :
                          k \in {x \in DOMAIN map[d].voters :
                                    map[d].voters[x][2].commitment = c} } :
                     d \in DOMAIN map })

\* the outcome map and the threshold of a certificate variant
OutcomeMap(variant) ==
    IF variant = "DA" THEN "da_vote_outcomes"
    ELSE IF variant = "Yes" THEN "yes_vote_outcomes"
    ELSE IF variant = "No" THEN "no_vote_outcomes"
    ELSE IF variant = "ViewSyncPreCommit" THEN "pre_commit_vote_outcomes"
    ELSE IF variant = "ViewSyncCommit" THEN "commit_vote_outcomes"
    ELSE "finalize_vote_outcomes"

OutcomeThreshold(variant) ==
    IF variant \in {"No", "ViewSyncPreCommit"}
    THEN config.failure_threshold ELSE config.success_threshold

C8_NoCrossCommitment ==
    Live =>
        /\ \A m \in MapNames(kind) : \A c \in DOMAIN acc[m] :
              \A k \in DOMAIN acc[m][c].voters : acc[m][c].voters[k][2].commitment = c
        /\ \A call \in CallsHere :
              LET r == Result(call)
                  c == CommitmentOf(call)
              IN  /\ \A m \in MapNames(kind) : \A d \in DOMAIN acc[m] \ {c} :
                        d \in DOMAIN r.acc[m] /\ r.acc[m][d] = acc[m][d]
                  /\ r.tag = "Right" =>
                        /\ TagOf(call) \in TagsOf(kind)
                        /\ StakeOn(acc[OutcomeMap(r.cert.kind)], c)
                              + (IF OutcomeMap(TagOf(call)) = OutcomeMap(r.cert.kind)
                                 THEN CountOf(call) ELSE 0)
                              >= OutcomeThreshold(r.cert.kind)

\* threshold 3, two unit votes on one commitment and one on another: not fired
C8_Witness ==
    /\ kind = "DA" /\ config = Unit4 /\ Live /\ exit = "credited"
    /\ PopCount(acc.signers) = 3
    /\ \E c, d \in DOMAIN acc.da_vote_outcomes :
          /\ c # d
          /\ acc.da_vote_outcomes[c].stake = 2
          /\ acc.da_vote_outcomes[d].stake = 1

(***************************************************************************)
(* C9: duplicate-vote idempotence.  Appending a vote whose encoded key is  *)
(* already recorded for the same commitment returns Left and leaves        *)
(* signers, sig_lists and every VoteMap exactly as they were.              *)
(***************************************************************************)
RecordedFor(call) ==
    \E m \in MapNames(kind) : KeyOf(call) \in Keys(acc[m], CommitmentOf(call))

C9_DuplicateIdempotent ==
    Live =>
        \A call \in CallsHere :
            RecordedFor(call) =>
                /\ Result(call).tag = "Left"
                /\ Result(call).acc = acc

\* two voters are recorded on one commitment and the last append was
\* rejected by the encoded-key check
C9_Witness ==
    /\ kind = "DA" /\ Live /\ ret = "Left" /\ exit = "dup_key"
    /\ PopCount(acc.signers) = 2
    /\ \E c \in DOMAIN acc.da_vote_outcomes :
          DOMAIN acc.da_vote_outcomes[c].voters = {ToBytes(0), ToBytes(1)}

(***************************************************************************)
(* C10: committee-position duplicate check.  When signers[vote_node_id] is *)
(* already set, append returns Left: no bit is set, no share pushed, no    *)
(* accumulated stake and no inner map changes, whatever key, commitment or *)
(* outcome the vote carries; the accumulator goes on accepting votes.      *)
(***************************************************************************)
C10_PositionDuplicate ==
    Live =>
        /\ \A call \in CallsHere :
              PositionTaken(call) =>
                  \A r \in {Result(call)} :
                      /\ r.tag = "Left"
                      /\ r.acc.signers = acc.signers
                      /\ r.acc.sig_lists = acc.sig_lists
                      /\ \A m \in MapNames(kind) : \A c \in Commitments :
                            /\ Stake(r.acc[m], c) = Stake(acc[m], c)
                            /\ Keys(r.acc[m], c) = Keys(acc[m], c)
                            /\ c \in DOMAIN acc[m] => r.acc[m][c] = acc[m][c]
        /\ exit = "dup_signer" =>
              \A call \in CallsHere :
                  Accepted(call) => Result(call).exit \in {"credited", "fired"}

\* a vote with a key not seen before was rejected because its position was
\* taken: one signer, one recorded key, and that key is not the position's own
C10_Witness ==
    /\ kind = "Quorum" /\ Live /\ ret = "Left" /\ exit = "dup_signer"
    /\ PopCount(acc.signers) = 1 /\ acc.signers[1]
    /\ DOMAIN acc.total_vote_outcomes = {1}
    /\ DOMAIN acc.total_vote_outcomes[1].voters = {ToBytes(0)}

(***************************************************************************)
(* C11: a vote whose VoteData tag is not one the accumulator's type takes  *)
(* (DA for DA; Yes and No for Quorum; the three ViewSync tags for          *)
(* ViewSync) returns Left and the accumulator returned is the one passed   *)
(* in: no tally materialised, no signer bit set, no share pushed.          *)
(***************************************************************************)
TakenTags ==
    IF kind = "DA" THEN {"DA"}
    ELSE IF kind = "Quorum" THEN {"Yes", "No"}
    ELSE {"ViewSyncPreCommit", "ViewSyncCommit", "ViewSyncFinalize"}

C11_KindFilter ==
    Live =>
        \A call \in CallsHere :
            TagOf(call) \notin TakenTags =>
                /\ Result(call).tag = "Left"
                /\ Result(call).acc = acc

\* a vote of another type was turned away from an accumulator holding a vote
C11_Witness ==
    /\ Live /\ exit = "filter" /\ ret = "Left"
    /\ PopCount(acc.signers) = 1 /\ Len(acc.sig_lists) = 1
    /\ \A m \in MapNames(kind) : DOMAIN acc[m] = {2}

(***************************************************************************)
(* C12 as claimed: a quorum vote of the Timeout variant given to the       *)
(* Quorum accumulator is turned away silently: append returns Left, the    *)
(* accumulator returned is the one passed in, and nothing faults.          *)
(***************************************************************************)
C12_Claimed_TimeoutSilentlyRejected ==
    (kind = "Quorum" /\ Live) =>
        \A call \in TimeoutCalls(config) :
            /\ Result(call).tag = "Left"
            /\ Result(call).acc = acc

(***************************************************************************)
(* C13 (I1): in every accumulator, after any appends, the stake stored     *)
(* under a commitment of a VoteMap is the sum of the vote_count of the     *)
(* entries of that commitment's inner map.                                 *)
(***************************************************************************)
\* sum of the vote_count of the entries recorded under c
CountSum(map, c) ==
    SumPairs({ <<k, map[c].voters[k][3].vote_count>> : k \in DOMAIN map[c].voters })

C13_TallyConsistency ==
    Live =>
        \A m \in MapNames(kind) : \A c \in DOMAIN acc[m] :
            acc[m][c].stake = CountSum(acc[m], c)

\* the unified accumulator holds two votes of different stake on one commitment
C13_Witness ==
    /\ kind = "Unified" /\ Live
    /\ \E c \in DOMAIN acc.total_vote_outcomes :
          /\ Cardinality(DOMAIN acc.total_vote_outcomes[c].voters) = 2
          /\ acc.total_vote_outcomes[c].stake = 3

(***************************************************************************)
(* C14 (I2): in every state of every accumulator the number of set bits of *)
(* signers is the length of sig_lists, in the accumulator and in the       *)
(* certificate it emits; an append sets one bit and pushes one share, or   *)
(* does neither.                                                           *)
(***************************************************************************)
C14_SignersMatchShares ==
    /\ status # "panicked" => PopCount(acc.signers) = Len(acc.sig_lists)
    /\ status = "fired" => PopCount(cert.signers) = Len(cert.sig_lists)
    /\ Live =>
          \A call \in CallsHere :
              \A r \in {Result(call)} :
                  r.tag # "Panic" =>
                      /\ PopCount(r.acc.signers) - PopCount(acc.signers)
                            = Len(r.acc.sig_lists) - Len(acc.sig_lists)
                      /\ PopCount(r.acc.signers) - PopCount(acc.signers) \in {0, 1}

\* the unified accumulator emitted a certificate from two votes
C14_Witness ==
    /\ kind = "Unified" /\ status = "fired"
    /\ PopCount(cert.signers) = 2 /\ Len(cert.sig_lists) = 2

(***************************************************************************)
(* C15: a signers bit is set exactly by the accepted vote submitted under  *)
(* that index; every share of sig_lists belongs to exactly one entry of    *)
(* exactly one outcome map; the total map, where the type has one, holds   *)
(* the same voters; so the entries of all outcome maps are as many as the  *)
(* set bits of signers.                                                    *)
(***************************************************************************)
OutcomeMaps(knd) == MapNames(knd) \ {"total_vote_outcomes"}

\* the entries <<map, commitment, key>> of the outcome maps
OutcomeEntries ==
    UNION { UNION { { <<m, c, k>> : k \in DOMAIN acc[m][c].voters } :
                    c \in DOMAIN acc[m] } :
            m \in OutcomeMaps(kind) }

C15_SignerCreditCorrespondence ==
    Live =>
        /\ Cardinality(OutcomeEntries) = PopCount(acc.signers)
        /\ \A j \in 1 .. Len(acc.sig_lists) :
              Cardinality({ x \in OutcomeEntries :
                              Deserialize(acc[x[1]][x[2]].voters[x[3]][1])
                                  = acc.sig_lists[j] }) = 1
        /\ "total_vote_outcomes" \in MapNames(kind) =>
              \A c \in DOMAIN acc.total_vote_outcomes :
                  DOMAIN acc.total_vote_outcomes[c].voters =
                      UNION { Keys(acc[m], c) : m \in OutcomeMaps(kind) }
        /\ \A call \in CallsHere :
              \A r \in {Result(call)} :
                  r.tag = "Left" =>
                      r.acc.signers =
                          IF Accepted(call)
                          THEN [acc.signers EXCEPT ![call[2]] = TRUE]
                          ELSE acc.signers

\* a ViewSync accumulator holding a Commit and a Finalize vote of two voters
C15_Witness ==
    /\ kind = "ViewSync" /\ Live
    /\ PopCount(acc.signers) = 2 /\ Cardinality(OutcomeEntries) = 2
    /\ \E x, y \in OutcomeEntries :
          x[1] = "commit_vote_outcomes" /\ y[1] = "finalize_vote_outcomes"

(***************************************************************************)
(* C16: when every vote is submitted under its voter's own committee       *)
(* index, no encoded key is recorded more than once in the outcome maps of *)
(* an accumulator, over all outcomes and all commitments.                  *)
(***************************************************************************)
C16_OneVotePerVoter ==
    Live =>
        \A x, y \in OutcomeEntries : x[3] = y[3] => x = y

\* a voter's second vote, on another commitment, was delivered and turned
\* away: the voter is recorded once
C16_Witness ==
    /\ Live /\ Len(delivered) = 2 /\ exit = "dup_signer"
    /\ KeyOf(delivered[1]) = KeyOf(delivered[2])
    /\ CommitmentOf(delivered[1]) # CommitmentOf(delivered[2])
    /\ Cardinality(OutcomeEntries) = 1

(***************************************************************************)
(* C17: once an append has returned Right(certificate), no append is       *)
(* applied to that instance again: every append starts from an accumulator *)
(* that has returned no certificate, so an instance emits at most one.     *)
(***************************************************************************)
C17_FireAndConsume == [][ret # "Right" /\ cert = NoCert]_vars

\* the unified accumulator has emitted a certificate
C17_Witness ==
    /\ kind = "Unified" /\ status = "fired" /\ ret = "Right"
    /\ cert.kind = "ViewSyncPreCommit"

(***************************************************************************)
(* C18: in the ViewSync accumulator a vote whose key is recorded under its *)
(* commitment in the PreCommit, the Commit or the Finalize map is turned   *)
(* away by the key lookups: Left, with signers, sig_lists and every stake  *)
(* as they were; a Commit from a voter whose PreCommit on that commitment  *)
(* was accepted leaves the commit tally at what it was.                    *)
(***************************************************************************)
C18_CrossPhaseDuplicate ==
    (kind = "ViewSync" /\ Live) =>
        /\ \A call \in CallsHere :
              (/\ TagOf(call) \in ViewSyncTags
               /\ \E m \in MapNames(kind) :
                     KeyOf(call) \in Keys(acc[m], CommitmentOf(call))) =>
                  \A r \in {Result(call)} :
                      /\ r.tag = "Left"
                      /\ r.exit = "dup_key"
                      /\ r.acc.signers = acc.signers
                      /\ r.acc.sig_lists = acc.sig_lists
                      /\ \A m \in MapNames(kind) : \A c \in Commitments :
                            Stake(r.acc[m], c) = Stake(acc[m], c)
        /\ (/\ Len(delivered) = 2
            /\ KeyOf(delivered[1]) = KeyOf(delivered[2])
            /\ CommitmentOf(delivered[1]) = CommitmentOf(delivered[2])
            /\ TagOf(delivered[1]) = "ViewSyncPreCommit"
            /\ TagOf(delivered[2]) = "ViewSyncCommit") =>
               /\ exit = "dup_key"
               /\ Stake(acc.commit_vote_outcomes, CommitmentOf(delivered[2])) = 0

\* a PreCommit and then a Commit of one voter on one commitment were
\* delivered; the Commit was turned away
C18_Witness ==
    /\ kind = "ViewSync" /\ Live /\ Len(delivered) = 2
    /\ KeyOf(delivered[1]) = KeyOf(delivered[2])
    /\ CommitmentOf(delivered[1]) = CommitmentOf(delivered[2])
    /\ TagOf(delivered[1]) = "ViewSyncPreCommit"
    /\ TagOf(delivered[2]) = "ViewSyncCommit"
    /\ exit = "dup_key" /\ PopCount(acc.signers) = 1

(***************************************************************************)
(* C19: the unified accumulator, having credited an accepted vote on c,    *)
(* emits, when total_c >= success_threshold, the first satisfied of Yes    *)
(* (yes_c >= success), No (no_c >= failure), DA, ViewSyncCommit and        *)
(* ViewSyncFinalize (each >= success); failing those, or below the gate,   *)
(* ViewSyncPreCommit when precommit_c >= failure_threshold; else Left.     *)
(* Only ViewSyncPreCommit is emitted while total_c < success_threshold.    *)
(***************************************************************************)
UnifiedExpected(call) ==
    LET total == Stake(acc.total_vote_outcomes, CommitmentOf(call)) + CountOf(call)
        gate == total >= config.success_threshold
    IN  IF gate /\ After("yes_vote_outcomes", "Yes", call) >= config.success_threshold
        THEN "Yes"
        ELSE IF gate /\ After("no_vote_outcomes", "No", call) >= config.failure_threshold
        THEN "No"
        ELSE IF gate /\ After("da_vote_outcomes", "DA", call) >= config.success_threshold
        THEN "DA"
        ELSE IF gate /\ After("viewsync_commit_vote_outcomes", "ViewSyncCommit", call)
                            >= config.success_threshold
        THEN "ViewSyncCommit"
        ELSE IF gate /\ After("viewsync_finalize_vote_outcomes", "ViewSyncFinalize", call)
                            >= config.success_threshold
        THEN "ViewSyncFinalize"
        ELSE IF After("viewsync_precommit_vote_outcomes", "ViewSyncPreCommit", call)
                    >= config.failure_threshold
        THEN "ViewSyncPreCommit"
        ELSE "None"

C19_UnifiedThresholdOrder ==
    (kind = "Unified" /\ Live) =>
        \A call \in CallsHere :
            TagOf(call) # "Timeout" =>
                IF Accepted(call)
                THEN /\ IF UnifiedExpected(call) = "None"
                        THEN Result(call).tag = "Left" /\ Result(call).cert = NoCert
                        ELSE /\ Result(call).tag = "Right"
                             /\ Result(call).cert.kind = UnifiedExpected(call)
                     /\ (/\ Result(call).tag = "Right"
                         /\ Stake(acc.total_vote_outcomes, CommitmentOf(call))
                                + CountOf(call) < config.success_threshold) =>
                            Result(call).cert.kind = "ViewSyncPreCommit"
                ELSE Result(call).tag # "Right"

\* a No certificate was emitted although the DA test held as well
C19_Witness ==
    /\ kind = "Unified" /\ status = "fired" /\ cert.kind = "No"
    /\ \E c \in DOMAIN acc.da_vote_outcomes :
          /\ acc.da_vote_outcomes[c].stake >= config.success_threshold
          /\ acc.no_vote_outcomes[c].stake >= config.failure_threshold
          /\ c \notin DOMAIN acc.total_vote_outcomes

(***************************************************************************)
(* C20: when an append assembles a certificate, the threshold handed to    *)
(* get_public_parameter is failure_threshold for ViewSyncPreCommit (in the *)
(* ViewSync and in the unified accumulator) and success_threshold for DA,  *)
(* Yes, ViewSyncCommit and ViewSyncFinalize, and the stake-table entries   *)
(* handed to it are the ones passed to that append.                        *)
(***************************************************************************)
\* stake tables a caller may pass: the committee's, and one of other stakes
EntryTables(cfg) ==
    { StakeTableEntries(cfg),
      [i \in Nodes(cfg) |-> [key |-> i, stake |-> StakeOf(cfg, i) + 1]] }

MatchingThreshold(certificate) ==
    IF certificate.kind = "ViewSyncPreCommit" THEN config.failure_threshold
    ELSE IF certificate.kind \in {"DA", "Yes", "ViewSyncCommit", "ViewSyncFinalize"}
    THEN config.success_threshold
    ELSE certificate.threshold

C20_PublicParameter ==
    /\ status = "fired" =>
          /\ cert.threshold = MatchingThreshold(cert)
          /\ cert.entries = Entries
    /\ Live =>
          \A call \in CallsHere : \A e \in EntryTables(config) :
              \A r \in {AppendOf(kind, acc, call[1], call[2], e)} :
                  r.tag = "Right" =>
                      /\ r.cert.entries = e
                      /\ r.cert.threshold = MatchingThreshold(r.cert)

\* the unified accumulator assembled a ViewSyncPreCommit certificate under the
\* failure threshold, which differs from the success threshold
C20_Witness ==
    /\ kind = "Unified" /\ status = "fired" /\ cert.kind = "ViewSyncPreCommit"
    /\ cert.threshold = config.failure_threshold
    /\ config.failure_threshold # config.success_threshold
    /\ cert.entries = Entries

(***************************************************************************)
(* C21: over the generate_task calls made on one WNetwork by its handles,  *)
(* interleaved in any way, at most one call is handed the tasks, and once  *)
(* all have returned exactly one has returned Some and every other one     *)
(* None; a call that returns None has created nothing, so the listener     *)
(* socket is taken once, by the tasks of the Some, and the take never      *)
(* finds the holder empty.                                                 *)
(***************************************************************************)
ReturnedWith(n, r) == { c \in DOMAIN gen[n] : gen[n][c].pc = "returned" /\ gen[n][c].ret = r }

C21_TaskOnlyOnce ==
    \A n \in NetNodes :
        /\ Cardinality(ReturnedWith(n, "Some")) <= 1
        /\ Cardinality({ c \in DOMAIN gen[n] :
                            gen[n][c].pc # "idle" /\ ~gen[n][c].generated }) <= 1
        /\ (DOMAIN gen[n] # {} /\ \A c \in DOMAIN gen[n] : gen[n][c].pc = "returned") =>
              /\ Cardinality(ReturnedWith(n, "Some")) = 1
              /\ ReturnedWith(n, "None") = DOMAIN gen[n] \ ReturnedWith(n, "Some")
        /\ \A c \in DOMAIN gen[n] : gen[n][c].spawned => gen[n][c].ret = "Some"
        /\ listener[n] # "panicked"
        /\ socket_holder[n] = "None" <=> \E c \in DOMAIN gen[n] : gen[n][c].spawned
        /\ tasks_started[n] <=> \E c \in DOMAIN gen[n] : gen[n][c].pc # "idle"

\* every caller of node 1 has returned: one Some, whose tasks run, and the
\* others None
C21_Witness ==
    /\ Cardinality(DOMAIN gen[1]) >= 2
    /\ \A c \in DOMAIN gen[1] : gen[1][c].pc = "returned"
    /\ Cardinality(ReturnedWith(1, "Some")) = 1
    /\ Cardinality(ReturnedWith(1, "None")) = Cardinality(DOMAIN gen[1]) - 1
    /\ listener[1] = "running" /\ socket_holder[1] = "None"

(***************************************************************************)
(* Vocabulary of the message properties.                                   *)
(***************************************************************************)
\* the calls of op on node n with payload m that visited the handle of n's
\* peer and returned Ok
OkSends(op, n, m) ==
    Cardinality({ i \in 1 .. Len(sent) : sent[i] = Call(op, n, {Peer(n)}, m, "Ok") })

\* occurrences of m in a sequence of payloads
Count(seq, m) == Cardinality({ i \in 1 .. Len(seq) : seq[i] = m })

(***************************************************************************)
(* C22 (as claimed): between two connected running nodes every message for *)
(* which message_node returned Ok is eventually returned by the peer's     *)
(* next_direct, once per Ok call, in both directions, and no direct        *)
(* message reaches a broadcast queue.                                      *)
(***************************************************************************)
C22_Claimed_DirectDelivery ==
    /\ \A n \in NetNodes : \A m \in Msgs : \A k \in 1 .. MaxSends :
          (OkSends("message_node", n, m) >= k) ~> (Count(got_direct[Peer(n)], m) >= k)
    /\ [](\A n \in NetNodes : \A m \in Msgs :
            /\ Count(got_direct[Peer(n)], m) <= OkSends("message_node", n, m)
            /\ Count(got_broadcast[Peer(n)], m) + Count(broadcast_ch[Peer(n)], m)
                  <= OkSends("broadcast_message", n, m))

(***************************************************************************)
(* C23 (as claimed): between two connected running nodes every message for *)
(* which broadcast_message returned Ok is eventually returned by           *)
(* next_broadcast on the node whose key was in the sender's handles, once  *)
(* per Ok call, in both directions, and no broadcast message reaches a     *)
(* direct queue.                                                           *)
(***************************************************************************)
C23_Claimed_BroadcastDelivery ==
    /\ \A n \in NetNodes : \A m \in Msgs : \A k \in 1 .. MaxSends :
          (OkSends("broadcast_message", n, m) >= k)
              ~> (Count(got_broadcast[Peer(n)], m) >= k)
    /\ [](\A n \in NetNodes : \A m \in Msgs :
            /\ Count(got_broadcast[Peer(n)], m) <= OkSends("broadcast_message", n, m)
            /\ Count(got_direct[Peer(n)], m) + Count(direct_ch[Peer(n)], m)
                  <= OkSends("message_node", n, m))

(***************************************************************************)
(* C24 (as claimed): a connect_to whose connection attempt fails does not  *)
(* return the failure but pauses and tries again; and a connect_to for a   *)
(* key that is in the handles table returns Ok, opens no connection and    *)
(* leaves the table as it is.                                              *)
(***************************************************************************)
C24_Claimed_ConnectRetries ==
    /\ [](\A n \in NetNodes : connect[n].ret = "Err" => connect[n].attempts > 1)
    /\ [][\A n \in NetNodes :
            (connect[n].pc = "idle" /\ Peer(n) \in handles[n] /\ connect'[n] # connect[n]) =>
                /\ connect'[n].ret = "Ok" /\ connect'[n].attempts = 0
                /\ handles' = handles /\ task' = task /\ wire' = wire]_vars

(***************************************************************************)
(* C25 (as claimed): in a certificate of kind K emitted by an append on    *)
(* commitment c, every share of sig_lists, and so every set bit of         *)
(* signers, comes from a vote for outcome K on commitment c; no share cast *)
(* for another outcome or another commitment is aggregated.                *)
(***************************************************************************)
ShareTag(share) == share[2]
ShareCommitment(share) == share[3]

C25_Claimed_CertificatePurity ==
    (status = "fired" /\ delivered # << >>) =>
        \A j \in 1 .. Len(cert.sig_lists) :
            /\ ShareTag(cert.sig_lists[j]) = cert.kind
            /\ ShareCommitment(cert.sig_lists[j]) = CommitmentOf(delivered[Len(delivered)])

(***************************************************************************)
(* C26: in every state in which a DA, Quorum or ViewSync accumulator is    *)
(* still held by its caller, no commitment satisfies a firing condition:   *)
(* the certificate is emitted by the append that first satisfies it.       *)
(***************************************************************************)
C26_NoPendingFire ==
    Live =>
        \A c \in Commitments :
            /\ kind = "DA" =>
                  Stake(acc.da_vote_outcomes, c) < acc.success_threshold
            /\ kind = "Quorum" =>
                  ~(/\ Stake(acc.total_vote_outcomes, c) >= acc.success_threshold
                    /\ \/ Stake(acc.yes_vote_outcomes, c) >= acc.success_threshold
                       \/ Stake(acc.no_vote_outcomes, c) >= acc.failure_threshold)
            /\ kind = "ViewSync" =>
                  /\ Stake(acc.pre_commit_vote_outcomes, c) < acc.failure_threshold
                  /\ Stake(acc.commit_vote_outcomes, c) < acc.success_threshold
                  /\ Stake(acc.finalize_vote_outcomes, c) < acc.success_threshold

\* a live Quorum accumulator whose No tally has reached failure_threshold
\* while the total is below success_threshold: nothing is due
C26_Witness ==
    /\ kind = "Quorum" /\ Live /\ ret = "Left" /\ exit = "credited"
    /\ \E c \in Commitments :
          /\ Stake(acc.no_vote_outcomes, c) >= acc.failure_threshold
          /\ Stake(acc.total_vote_outcomes, c) < acc.success_threshold

(***************************************************************************)
(* C27: in every state of a Quorum accumulator, for every commitment, the  *)
(* total stake is the yes stake plus the no stake and the voters of the    *)
(* total tally are the voters of the yes tally and those of the no tally,  *)
(* which have no voter in common; in every state of the unified            *)
(* accumulator the total stake of a commitment is the sum of its DA, Yes,  *)
(* No, PreCommit, Commit and Finalize stakes.                              *)
(***************************************************************************)
UnifiedOutcomeMaps == MapNames("Unified") \ {"total_vote_outcomes"}

C27_TotalDecomposition ==
    Live =>
        \A c \in Commitments :
            /\ kind = "Quorum" =>
                  /\ Stake(acc.total_vote_outcomes, c)
                        = Stake(acc.yes_vote_outcomes, c) + Stake(acc.no_vote_outcomes, c)
                  /\ Keys(acc.total_vote_outcomes, c)
                        = Keys(acc.yes_vote_outcomes, c) \cup Keys(acc.no_vote_outcomes, c)
                  /\ Keys(acc.yes_vote_outcomes, c) \cap Keys(acc.no_vote_outcomes, c) = {}
            /\ kind = "Unified" =>
                  Stake(acc.total_vote_outcomes, c)
                    = SumPairs({ <<m, Stake(acc[m], c)>> : m \in UnifiedOutcomeMaps })

\* a Quorum accumulator holds a Yes and a No vote on one commitment
C27_Witness ==
    /\ kind = "Quorum" /\ Live
    /\ \E c \in Commitments :
          /\ Keys(acc.yes_vote_outcomes, c) # {}
          /\ Keys(acc.no_vote_outcomes, c) # {}

(***************************************************************************)
(* C28: whenever an accumulator assembles a certificate, the vote_count of *)
(* the voters whose signer bit is set (one share each) add up to at least  *)
(* the threshold the public parameter of the certificate was built with:   *)
(* success_threshold for DA, Yes, No, ViewSyncCommit and ViewSyncFinalize, *)
(* failure_threshold for ViewSyncPreCommit.                                *)
(***************************************************************************)
\* the voter whose signature a share of sig_lists is
ShareVoter(share) == share[1]

\* the vote_count of the votes whose shares the certificate aggregates; every
\* vote of voter k carries the token of count StakeOf(config, k)
SignerStake(certificate) ==
    SumPairs({ <<j, vote_count(get_vote_token(
                        VoteOf(config, ShareVoter(certificate.sig_lists[j]), "DA", 1)))>> :
                  j \in 1 .. Len(certificate.sig_lists) })

\* the threshold the claim names for a certificate of the variant
AssemblyThreshold(variant) ==
    IF variant = "ViewSyncPreCommit" THEN config.failure_threshold
    ELSE config.success_threshold

RejectedFrame(knd, before, after, c) ==
    /\ DOMAIN after = DOMAIN before
    /\ \A f \in DOMAIN before \ MapNames(knd) : after[f] = before[f]
    /\ \A m \in MapNames(knd) :
          /\ DOMAIN before[m] \subseteq DOMAIN after[m]
          /\ \A d \in DOMAIN before[m] : after[m][d] = before[m][d]
          /\ \A d \in DOMAIN after[m] \ DOMAIN before[m] :
                /\ d = c
                /\ after[m][d] = EmptyTally
                /\ \A o \in MapNames(knd) : d \notin DOMAIN before[o]

C29_RejectedFrame ==
    Live =>
        \A call \in CallsHere : \A r \in {Result(call)} :
            /\ (KeyRecorded(call) \/ PositionTaken(call)) /\ TagOf(call) \in TagsOf(kind)
                    => r.exit \in {"dup_key", "dup_signer"}
            /\ r.exit \in {"dup_key", "dup_signer"} =>
                    /\ r.tag = "Left"
                    /\ RejectedFrame(kind, acc, r.acc, CommitmentOf(call))

\* one vote was credited and a vote on another commitment, sent under the
\* position taken, was rejected: it left empty tallies under its commitment
C29_Witness ==
    /\ kind = "ViewSync" /\ Live /\ ret = "Left" /\ exit = "dup_signer"
    /\ PopCount(acc.signers) = 1 /\ Len(acc.sig_lists) = 1
    /\ \E c, d \in Commitments :
          /\ \A m \in MapNames(kind) : DOMAIN acc[m] = {c, d}
          /\ \A m \in MapNames(kind) : acc[m][d] = EmptyTally
          /\ acc.commit_vote_outcomes[c].stake > 0

(***************************************************************************)
(* C30: over any sequence of appends the length of signers and the two     *)
(* thresholds stay those of construction; a vote whose index is outside    *)
(* the signers bitvec is credited to no tally and does not grow the        *)
(* bitvec: unless the kind filter or the encoded-key check rejects it      *)
(* first, the append panics instead of returning an accumulator.           *)
(***************************************************************************)
C30_FixedConfiguration ==
    /\ DOMAIN acc.signers = Nodes(config)
    /\ acc.success_threshold = config.success_threshold
    /\ "failure_threshold" \in DOMAIN acc =>
          acc.failure_threshold = config.failure_threshold
    /\ Live =>
          \A call \in CallsHere :
              ~InBitvec(call) =>
                  \A r \in {Result(call)} :
                      /\ r.tag # "Right"
                      /\ r.tag = "Left" => r.exit \in {"filter", "dup_key"}
                      /\ TagOf(call) \in TagsOf(kind) /\ ~KeyRecorded(call)
                            => r.tag = "Panic"
                      /\ DOMAIN r.acc.signers = DOMAIN acc.signers
                      /\ r.acc.signers = acc.signers
                      /\ r.acc.sig_lists = acc.sig_lists
                      /\ \A m \in MapNames(kind) : \A c \in Commitments :
                            /\ Stake(r.acc[m], c) = Stake(acc[m], c)
                            /\ Keys(r.acc[m], c) = Keys(acc[m], c)

\* after one vote was credited, a vote sent under the index one past the
\* last position made the append panic
C30_Witness ==
    /\ kind = "Quorum" /\ status = "panicked" /\ exit = "panic"
    /\ PopCount(acc.signers) = 1
    /\ \E c \in Commitments :
          /\ Keys(acc.total_vote_outcomes, c) = {ToBytes(1)}
          /\ \E d \in Commitments \ {c} : d \in DOMAIN acc.total_vote_outcomes

(***************************************************************************)
(* C31: a VoteData::Timeout vote appended to the unified accumulator never *)
(* yields a certificate and is never credited in an accumulator handed     *)
(* back.  When it passes both duplicate checks (its index being a position *)
(* of the bitvec) the append panics at unimplemented!(), and at that point *)
(* the signer bit is set, the share pushed and the total tally credited,   *)
(* while no outcome tally is.                                              *)
(***************************************************************************)
C31_UnifiedTimeout ==
    (kind = "Unified" /\ Live) =>
        \A call \in CallsHere :
            TagOf(call) = "Timeout" =>
                \A r \in {Result(call)} :
                    /\ r.tag # "Right" /\ r.cert = NoCert
                    /\ r.tag = "Left" =>
                          /\ r.exit \in {"dup_key", "dup_signer"}
                          /\ r.acc.signers = acc.signers
                          /\ r.acc.sig_lists = acc.sig_lists
                          /\ \A m \in MapNames(kind) : \A c \in Commitments :
                                /\ Stake(r.acc[m], c) = Stake(acc[m], c)
                                /\ Keys(r.acc[m], c) = Keys(acc[m], c)
                    /\ (~KeyRecorded(call) /\ ~PositionTaken(call) /\ InBitvec(call)) =>
                          /\ r.tag = "Panic"
                          /\ r.acc.signers = [acc.signers EXCEPT ![call[2]] = TRUE]
                          /\ r.acc.sig_lists = Append(acc.sig_lists, Deserialize(get_signature(call[1])))
                          /\ Stake(r.acc.total_vote_outcomes, CommitmentOf(call))
                                = Stake(acc.total_vote_outcomes, CommitmentOf(call))
                                    + CountOf(call)
                          /\ KeyOf(call) \in Keys(r.acc.total_vote_outcomes, CommitmentOf(call))
                          /\ \A m \in UnifiedOutcomeMaps : \A c \in Commitments :
                                /\ Stake(r.acc[m], c) = Stake(acc[m], c)
                                /\ Keys(r.acc[m], c) = Keys(acc[m], c)

\* after a credited vote, a Timeout vote of another voter panicked the append:
\* two bits, two shares, and a total above the sum of the outcome tallies
C31_Witness ==
    /\ kind = "Unified" /\ status = "panicked"
    /\ PopCount(acc.signers) = 2 /\ Len(acc.sig_lists) = 2
    /\ ShareTag(acc.sig_lists[2]) = "Timeout"
    /\ \E c \in Commitments :
          Stake(acc.total_vote_outcomes, c)
            > SumPairs({ <<m, Stake(acc[m], c)>> : m \in UnifiedOutcomeMaps })

(***************************************************************************)
(* C32: sig_lists holds the shares of the accepted votes in the order in   *)
(* which they were accepted, whatever their committee index: each accepted *)
(* vote adds its share at the end and no append removes or moves a share,  *)
(* so the k-th share is the k-th accepted voter's and not the share of the *)
(* voter at the k-th set bit of signers.                                   *)
(***************************************************************************)
\* with every vote under its voter's own index, the accepted votes are the
\* first delivered vote of each voter; their shares, in delivery order
RECURSIVE AcceptedShares(_)
AcceptedShares(n) ==
    IF n = 0 THEN << >>
    ELSE IF \E j \in 1 .. (n - 1) : KeyOf(delivered[j]) = KeyOf(delivered[n])
    THEN AcceptedShares(n - 1)
    ELSE Append(AcceptedShares(n - 1), Deserialize(get_signature(delivered[n][1])))

C32_ShareOrder ==
    /\ acc.sig_lists = AcceptedShares(Len(delivered))
    /\ status = "fired" => cert.sig_lists = acc.sig_lists

\* two votes were accepted, the voter of the higher index first: the first
\* share is not that of the first set bit
C32_Witness ==
    /\ Len(acc.sig_lists) = 2 /\ PopCount(acc.signers) = 2
    /\ ShareVoter(acc.sig_lists[1]) > ShareVoter(acc.sig_lists[2])
    /\ acc.signers[ShareVoter(acc.sig_lists[1])] /\ acc.signers[ShareVoter(acc.sig_lists[2])]

(***************************************************************************)
(* C33: every accumulated stake, the total tallies included, is at most    *)
(* the sum of the vote_count of the accepted votes, one per committee      *)
(* position; so with a committee whose total stake fits the stake word no  *)
(* addition of an append overflows: each tally is the exact sum of the     *)
(* vote_count recorded under it, and so is the tally an accepted vote is   *)
(* about to produce.                                                       *)
(***************************************************************************)
CommitteeStake(cfg) == SumPairs({ <<i, StakeOf(cfg, i)>> : i \in Nodes(cfg) })

\* the maps an accepted vote of the tag is credited to
CreditedMaps(knd, tag) ==
    { m \in MapNames(knd) :
        \/ m = "total_vote_outcomes"
        \/ knd = "DA"
        \/ knd = "Unified" /\ m = VoteAccumulatorMapOf(tag)
        \/ knd = "Quorum" /\ m = (IF tag = "Yes" THEN "yes_vote_outcomes"
                                                ELSE "no_vote_outcomes")
        \/ knd = "ViewSync" /\ m = (IF tag = "ViewSyncPreCommit"
                                    THEN "pre_commit_vote_outcomes"
                                    ELSE IF tag = "ViewSyncCommit"
                                    THEN "commit_vote_outcomes"
                                    ELSE "finalize_vote_outcomes") }

C33_StakeBound ==
    /\ CommitteeStake(config) <= U64Max
    /\ Live =>
          /\ PopCount(acc.signers) = Len(acc.sig_lists)
          /\ SignerStake(acc) <= CommitteeStake(config)
          /\ \A m \in MapNames(kind) : \A c \in DOMAIN acc[m] :
                /\ acc[m][c].stake = CountSum(acc[m], c)
                /\ acc[m][c].stake <= SignerStake(acc)
          /\ \A call \in CallsHere :
                (Accepted(call) /\ TagOf(call) # "Timeout") =>
                    \A m \in CreditedMaps(kind, TagOf(call)) :
                        /\ Stake(acc[m], CommitmentOf(call)) + CountOf(call)
                                <= SignerStake(acc) + CountOf(call)
                        /\ SignerStake(acc) + CountOf(call) <= U64Max

\* in the committee whose total stake is U64Max, two votes are credited under
\* one commitment and their tally is one addition short of the threshold
C33_Witness ==
    /\ kind = "DA" /\ Live /\ CommitteeStake(config) = U64Max
    /\ \E c \in DOMAIN acc.da_vote_outcomes :
          /\ Cardinality(DOMAIN acc.da_vote_outcomes[c].voters) = 2
          /\ acc.da_vote_outcomes[c].stake = 2

(***************************************************************************)
(* Message ids of a WNetwork.                                              *)
(***************************************************************************)
NoRepeat(seq) == \A i, j \in DOMAIN seq : seq[i] = seq[j] => i = j

\* the ids of the commands node n has queued for its task or written on the
\* connection, oldest last written
CreatedIds(n) ==
    [i \in 1..Len(outbound[n]) |-> outbound[n][i].id]
        \o [i \in 1..Len(wire[n]) |-> BincodeDeserialize(wire[n][i]).command.id]

\* the calls of message_node on node n that went past the shutdown test
SendsWithId(n) == { i \in DOMAIN sent : sent[i].from = n /\ sent[i].to # {} }

(***************************************************************************)
(* C34: under any interleaving of senders, ping tasks and connection       *)
(* handlers of one node, get_next_message_id never returns a value twice:  *)
(* the k-th call returns k - 1 and leaves the counter at k; so the         *)
(* commands a node has created carry pairwise different ids and no two     *)
(* ack waiters are registered under one id.                                *)
(***************************************************************************)
C34_UniqueIds ==
    \A n \in NetNodes :
        /\ counter[n] = Len(issued[n])
        /\ \A i \in DOMAIN issued[n] : issued[n][i] = i - 1
        /\ NoRepeat(issued[n])
        /\ NoRepeat(CreatedIds(n))
        /\ NoRepeat(waiters[n])
        /\ \A i \in DOMAIN waiters[n] : \E j \in DOMAIN issued[n] : issued[n][j] = waiters[n][i]

\* one node has taken an id in ping_remote, one in message_node and one in
\* its connection task for an Ack, and two of its commands are under way
C34_Witness ==
    \E n \in NetNodes :
        /\ ping[n].id >= 0
        /\ SendsWithId(n) # {}
        /\ Len(issued[n]) > 2 + Cardinality(SendsWithId(n))
        /\ Len(CreatedIds(n)) >= 2

(***************************************************************************)
(* C35: ping_remote removes the remote from handles when the Ping cannot   *)
(* be queued to the connection task or when keep_alive_duration passes     *)
(* with no Ack for the ping's id, and leaves handles alone when the Ack    *)
(* arrives in time; a remote is pinged only after at least                 *)
(* keep_alive_duration without an incoming message from it.  On a pair     *)
(* nothing else changes handles, so a node holds its peer's handle exactly *)
(* as long as no ping_remote of its own has failed.                        *)
(***************************************************************************)
C35_KeepAliveEviction ==
    \A n \in NetNodes :
        /\ ping[n].pc # "idle" =>
              /\ ping[n].remote = Peer(n)
              /\ ping[n].quiet >= KeepAlive
        /\ ping[n].ret \in {"not_queued", "timed_out"} <=> handles[n] = {}
        /\ ping[n].ret \in {"None", "acked"} <=> handles[n] = {Peer(n)}
        /\ ping[n].ret = "not_queued" => task[n] # "running"
        /\ ping[n].ret = "timed_out" => now - ping[n].sent_at >= KeepAlive
        /\ ping[n].ret # "None" <=> ping[n].pc = "done"

\* one node's ping was acked and its handle kept; its peer's ping, sent after
\* the node's connection broke, ran into the timeout and the handle is gone
C35_Witness ==
    \E n \in NetNodes :
        /\ ping[n].ret = "acked" /\ handles[n] = {Peer(n)}
        /\ ping[Peer(n)].ret = "timed_out" /\ handles[Peer(n)] = {}

(***************************************************************************)
(* C36: a message_node call returns NoSuchNode exactly when the recipient  *)
(* is not in handles, and CouldNotDeliver when the recipient's handle has  *)
(* its shutdown flag set; in both cases no command is queued, the message  *)
(* counter keeps its value and handles is unchanged.  A shutdown flag that *)
(* is set stays set in every step.                                         *)
(***************************************************************************)
C36_MessageNodeErrors ==
    [][/\ \A n \in NetNodes : shutdown[n] => shutdown'[n]
       /\ sent' # sent =>
            LET c == sent'[Len(sent')]
                n == c.from
                absent == ~ContainsKey(handles[n], Peer(n))
            IN  c.op = "message_node" =>
                  /\ c.ret = "NoSuchNode" <=> absent
                  /\ (~absent /\ shutdown[n]) => c.ret = "CouldNotDeliver"
                  /\ (absent \/ shutdown[n]) =>
                        /\ counter' = counter /\ issued' = issued
                        /\ outbound' = outbound /\ wire' = wire
                        /\ handles' = handles /\ waiters' = waiters
                        /\ c.to = {}
                  /\ c.ret = "Ok" =>
                        /\ ~shutdown[n]
                        /\ counter'[n] = counter[n] + 1
                        /\ Len(outbound'[n]) = Len(outbound[n]) + 1]_vars

\* a node whose connection broke has called message_node twice: the first
\* call met the shutdown flag, the second came after ping_remote had removed
\* the peer; the counter was advanced by ping_remote alone
C36_Witness ==
    \E n \in NetNodes :
        /\ shutdown[n] /\ handles[n] = {}
        /\ Len(sent) = 2
        /\ sent[1] = Call("message_node", n, {}, sent[1].inner, "CouldNotDeliver")
        /\ sent[2] = Call("message_node", n, {}, sent[2].inner, "NoSuchNode")
        /\ counter[n] = 2

(***************************************************************************)
(* The Identify handshake.                                                 *)
(***************************************************************************)
\* the connection task of node n reads a frame in this step
FrameTaken(n) == wire[Peer(n)] # << >> /\ wire'[Peer(n)] = Tail(wire[Peer(n)])
FrameRead(n) == BincodeDeserialize(Head(wire[Peer(n)])).command

\* the task of node n answers the Identify it reads with an Ack carrying its
\* id, reports its key if it is the first one and no other, and keeps the
\* connection open
IdentifyAnswered(n) ==
    /\ wire'[n] = Append(wire[n], BincodeSerialize(Ack(FrameRead(n).id, counter[n])).bytes)
    /\ reported'[n] = (IF reported[n] = << >> THEN <<FrameRead(n).from>> ELSE reported[n])
    /\ ~shutdown'[n] /\ task'[n] = "running"
    /\ handles'[n] = handles[n]

\* the task of node n shuts the connection down on the Identify it reads:
\* no Ack, nothing reported
IdentifyRefused(n) ==
    /\ wire'[n] = wire[n] /\ counter'[n] = counter[n]
    /\ reported'[n] = reported[n]
    /\ shutdown'[n] /\ task'[n] = "stopped"

\* C37 as stated: on every connection each Identify read is acked with its
\* id, only the first reports a key, and the connection stays open
C37_Claimed_EveryIdentifyAnswered ==
    [][\A n \in NetNodes :
          (FrameTaken(n) /\ FrameRead(n).tag = "Identify") => IdentifyAnswered(n)]_vars

(***************************************************************************)
(* C37, amended: on a connection whose spawn_task still holds the receiver *)
(* of the identity channel, as on every connection accepted by the         *)
(* listener, or that has read an Identify before, each Identify read is    *)
(* answered with an Ack carrying its id, only the first one reports the    *)
(* peer's key, later ones change neither the key nor handles and do not    *)
(* shut the connection down.  On a connection opened by connect_to that    *)
(* has returned, the first Identify read shuts the connection down and is  *)
(* not acked.                                                              *)
(***************************************************************************)
C37_IdentifyHandshake ==
    [][\A n \in NetNodes :
          (FrameTaken(n) /\ FrameRead(n).tag = "Identify") =>
              /\ (pk_r[n] = "alive" \/ ~pk_s[n]) => IdentifyAnswered(n)
              /\ (pk_r[n] = "dropped" /\ pk_s[n]) => IdentifyRefused(n)
              /\ ~pk_s'[n]
              /\ n # Connector => (pk_s[n] <=> reported[n] = << >>)]_vars

\* the accepting node has read the Identify of the handshake and a second
\* one under a foreign key: it has sent two Acks, reported the first key
\* alone and holds the handle under it, the connection open
C37_Witness ==
    \E n \in NetNodes \ {Connector} :
        /\ reported[n] = <<Connector>> /\ handles[n] = {Connector}
        /\ counter[n] = 2 /\ wire[Peer(n)] = << >>
        /\ ~shutdown[n] /\ task[n] = "running"
        /\ \E i \in DOMAIN sent : sent[i] = Call("identify", Connector, {n}, ForeignKey, "Ok")

(***************************************************************************)
(* The tally removed by a ViewSync outcome.                                *)
(***************************************************************************)
\* the VoteMap a ViewSync outcome is tallied in and removed from
ViewSyncOutcomeMap(knd, variant) ==
    IF knd = "Unified" THEN VoteAccumulatorMapOf(variant) ELSE OutcomeMap(variant)

(***************************************************************************)
(* C38: the unwrap on the removed tally of a fired ViewSync outcome never  *)
(* fails.  No append of the ViewSync or the unified accumulator ends in    *)
(* the panic of remove(..).unwrap(): whenever one fires a ViewSync         *)
(* outcome, the VoteMap of that outcome holds a tally under the vote's     *)
(* commitment when it is removed, and the removal takes that tally and no  *)
(* other.                                                                  *)
(***************************************************************************)
C38_RemoveUnwrap ==
    /\ exit # "unwrap"
    /\ (Live /\ kind \in {"ViewSync", "Unified"}) =>
          \A call \in CallsHere : \A r \in {Result(call)} :
              /\ r.exit # "unwrap"
              /\ (r.tag = "Right" /\ r.cert.kind \in ViewSyncTags) =>
                    \A m \in {ViewSyncOutcomeMap(kind, r.cert.kind)} :
                        /\ Accepted(call)
                        /\ DOMAIN r.acc[m] = DOMAIN acc[m] \ {CommitmentOf(call)}
                        /\ \A d \in DOMAIN r.acc[m] : r.acc[m][d] = acc[m][d]

\* a ViewSync or unified accumulator that held a tally under another
\* commitment has fired a Commit certificate: the tally of the fired
\* commitment is gone from the commit map, the other one is still there
C38_Witness ==
    /\ status = "fired" /\ kind \in {"ViewSync", "Unified"}
    /\ cert.kind = "ViewSyncCommit"
    /\ \E c, d \in Commitments :
          /\ c # d
          /\ DOMAIN acc[ViewSyncOutcomeMap(kind, cert.kind)] = {d}
          /\ \A j \in 1 .. Len(cert.sig_lists) :
                ShareCommitment(cert.sig_lists[j]) = d \/ ShareTag(cert.sig_lists[j]) = "ViewSyncCommit"
          /\ \E j \in 1 .. Len(cert.sig_lists) : ShareCommitment(cert.sig_lists[j]) = c

====
